---- MODULE Spec2Model ----
(***************************************************************************)
(* A model of hprocessing/ProcessEnviFile.py (class ProcessEnviFile and    *)
(* its module-level helpers) and of hprocessing/ProcessFullDataset.py      *)
(* (the mask construction, class ProcessFullDataset and the driver         *)
(* processHydReSGeoDataset).                                               *)
(*                                                                         *)
(* Conventions                                                             *)
(*   - a Python list is a TLA+ sequence (1-based); Python indices are      *)
(*     0-based, so image band i of the code is band i+1 of a sequence.     *)
(*   - a float is an exact rational <<num, den>> in lowest terms with      *)
(*     den > 0; <<0,0>> is NaN, <<1,0>> is +inf and <<-1,0>> is -inf.      *)
(*   - None is the empty tuple <<>> (grid, mask, grid_elements).           *)
(*   - a pandas DataFrame is [columns |-> labels, data |-> rows], each row *)
(*     a sequence of cells aligned with the columns.                       *)
(*   - a call returns [status |-> "ok", value |-> v] or                    *)
(*     [status |-> <exception name>, value |-> <<>>].                      *)
(***************************************************************************)
EXTENDS Integers, Sequences, FiniteSets, TLC

VARIABLES
    image,                \* self.image: [row, col, band] -> pixel value
    wavelengths_original, \* self.wavelengths_original (validated)
    bbl_original,         \* self.bbl_original (validated)
    wavelengths,          \* self.wavelengths (usable bands only)
    zone_list,            \* self.zone_list
    positions,            \* self.positions: prefix -> rectangle
    mask,                 \* self.mask: None or [row, col] -> 0/1
    grid,                 \* self.grid: None or (rows, cols)
    grid_elements,        \* self.grid_elements
    pc,                   \* position inside getMultipleSpectra, or "idle"
    df_spectralon,        \* getMultipleSpectra: local df_spectralon
    zone_spectra_cali,    \* getMultipleSpectra: local zone_spectra_cali
    zone_i,               \* getMultipleSpectra: index of the next zone
    trace,                \* aggregations made by the running/last call
    call,                 \* the last call made by the caller
    ret,                  \* what the last call returned or raised
    dataset,              \* ProcessFullDataset: its other fields and the
                          \* files it reads, or None
    driver                \* processHydReSGeoDataset: config, header list, output
                          \* file and locals, or None

vars == <<image, wavelengths_original, bbl_original, wavelengths, zone_list,
          positions, mask, grid, grid_elements, pc, df_spectralon,
          zone_spectra_cali, zone_i, trace, call, ret, dataset, driver>>

\* what no method of ProcessEnviFile assigns: the fields set by __init__, and
\* what lies outside the object
object == <<image, wavelengths_original, bbl_original, wavelengths, zone_list,
            positions, mask, grid, dataset, driver>>

locals == <<df_spectralon, zone_spectra_cali, zone_i>>

----------------------------------------------------------------------------
(* Bounds of the model.                                                    *)

NRows == 4          \* image rows
NCols == 4          \* image columns
NBands == 3         \* raw bands of the image
MaxGrid == 2        \* configured grid values are 0..MaxGrid
MaxPix == 5         \* pixel values are 0..MaxPix-1
MaxCoord == 5       \* getEdgesForGrid is applied to rectangles in 0..MaxCoord
MaxLen == 3         \* drawn band lists have 0..MaxLen bands, or about 139
MaxSoilLen == 2     \* spectra to calibrate have 1..MaxSoilLen bands
MaxCal == 2         \* their values are 0..MaxCal

(* Program constants.                                                      *)

TopN == 10                \* "max10": np.sort(roi)[-10:]
SpectralonFactorPct == 95 \* spectralon_factor=0.95, in percent
SentinelLength == 139     \* len(wavelengths) == 139

None == <<>>

Ok(v) == [status |-> "ok", value |-> v]
Raise(e) == [status |-> e, value |-> <<>>]

\* F(v), with v evaluated once: a local variable of the code
With(v, F(_)) == CHOOSE r \in {F(x) : x \in {v}} : TRUE

----------------------------------------------------------------------------
(* Python and numpy arithmetic.                                            *)

Abs(x) == IF x < 0 THEN -x ELSE x

RECURSIVE GCD(_, _)
GCD(a, b) == IF b = 0 THEN a ELSE GCD(b, a % b)

NaN == <<0, 0>>

\* a rational in lowest terms with a positive denominator; x/0 is +-inf, 0/0 NaN
Rat(n, d) ==
    IF d = 0 THEN (IF n > 0 THEN <<1, 0>> ELSE IF n < 0 THEN <<-1, 0>> ELSE NaN)
    ELSE LET g == GCD(Abs(n), Abs(d))
             s == IF d < 0 THEN -1 ELSE 1
         IN  <<(s * n) \div g, (s * d) \div g>>

RatOfInt(n) == <<n, 1>>

\* float division as numpy does it: no exception, inf and NaN are propagated
RatDiv(x, y) ==
    IF x = NaN \/ y = NaN THEN NaN
    ELSE IF x[2] = 0 /\ y[2] = 0 THEN NaN
    ELSE IF x[2] = 0 THEN (IF y[1] < 0 THEN <<-x[1], 0>> ELSE x)
    ELSE IF y[2] = 0 THEN <<0, 1>>
    ELSE Rat(x[1] * y[2], x[2] * y[1])

RatMul(x, y) ==
    IF x = NaN \/ y = NaN THEN NaN
    ELSE IF x[2] = 0 \/ y[2] = 0
         THEN Rat(x[1] * y[1], 0)
    ELSE Rat(x[1] * y[1], x[2] * y[2])

\* int(a / b): true division, then truncation towards zero
PyIntDiv(a, b) ==
    IF (a >= 0) = (b > 0) THEN Abs(a) \div Abs(b) ELSE -(Abs(a) \div Abs(b))

\* range(n) as the sequence 0, 1, ..., n-1 (empty when n <= 0)
PyRange(n) == [k \in 1..n |-> k - 1]

\* range(a, b) as a sequence
PyRange2(a, b) == [k \in 1..(b - a) |-> a + k - 1]

RECURSIVE SeqSum(_)
SeqSum(s) == IF s = <<>> THEN 0 ELSE Head(s) + SeqSum(Tail(s))

RECURSIVE Flatten(_)
Flatten(ss) == IF ss = <<>> THEN <<>> ELSE Head(ss) \o Flatten(Tail(ss))

\* np.sort: ascending
NpSort(roi) == SortSeq(roi, LAMBDA a, b : a < b)

\* s[-n:]: the last n elements, all of s when it has fewer
PyLast(s, n) == IF Len(s) <= n THEN s ELSE SubSeq(s, Len(s) - n + 1, Len(s))

\* np.mean: NaN (and a warning, no exception) on an empty list
NpMean(roi) == Rat(SeqSum(roi), Len(roi))

\* np.median that takes the upper of the two middle values of an even list
NpMedianUpper(roi) ==
    LET s == NpSort(roi)
        n == Len(s)
    IN  IF n = 0 THEN NaN ELSE RatOfInt(s[(n \div 2) + 1])

\* np.median: NaN on an empty list, the mean of the two middle values of the
\* sorted list when its length is even
NpMedian(roi) ==
    LET s == NpSort(roi)
        n == Len(s)
    IN  IF n = 0 THEN NaN
        ELSE IF n % 2 = 1 THEN RatOfInt(s[(n + 1) \div 2])
        ELSE Rat(s[n \div 2] + s[(n \div 2) + 1], 2)

\* np.max of a non-empty list
NpMax(roi) == RatOfInt(NpSort(roi)[Len(roi)])

\* int(x) of a bbl entry of the header ("1", "0")
PyInt(x) == CASE x = "1" -> 1 [] x = "0" -> 0 [] OTHER -> 2

----------------------------------------------------------------------------
(* pandas                                                                  *)

DataFrame(data, columns) == [columns |-> columns, data |-> data]

\* pd.concat that puts the frames in the reverse order
PdConcatReversed(frames) ==
    IF frames = <<>> THEN Raise("ValueError")
    ELSE Ok(DataFrame(Flatten([k \in 1..Len(frames) |->
                                  frames[Len(frames) + 1 - k].data]),
                      frames[1].columns))

\* pd.concat(frames, axis=0, ignore_index=True) of frames with equal columns;
\* "No objects to concatenate" is a ValueError
PdConcat(frames) ==
    IF frames = <<>> THEN Raise("ValueError")
    ELSE Ok(DataFrame(Flatten([k \in 1..Len(frames) |-> frames[k].data]),
                      frames[1].columns))

\* df[label] = values for a new label: the list must have one value per row
PdSetColumn(df, label, values) ==
    IF Len(values) # Len(df.data) THEN Raise("ValueError")
    ELSE Ok(DataFrame([k \in 1..Len(df.data) |-> Append(df.data[k], values[k])],
                      Append(df.columns, label)))

\* df[label] = scalar for a new label: the scalar is broadcast to every row
PdSetScalar(df, label, v) ==
    DataFrame([k \in 1..Len(df.data) |-> Append(df.data[k], v)],
              Append(df.columns, label))

\* the position of a label among the columns (labels are distinct)
ColumnIndex(df, label) == CHOOSE k \in 1..Len(df.columns) : df.columns[k] = label

\* df[labels] as rows
PdSelect(df, labels) ==
    [r \in 1..Len(df.data) |->
        [k \in 1..Len(labels) |-> df.data[r][ColumnIndex(df, labels[k])]]]

----------------------------------------------------------------------------
(* Module-level functions of ProcessEnviFile.py                            *)

\* validateWavelengths that looks for the zero-wavelength first and compares
\* the lengths afterwards
validateWavelengthsSentinelFirst(wl, bbl) ==
    IF Len(wl) = SentinelLength
    THEN Ok(<<SubSeq(wl, 2, Len(wl)), SubSeq(bbl, 2, Len(bbl))>>)
    ELSE IF Len(wl) # Len(bbl) THEN Raise("ValueError")
    ELSE Ok(<<wl, bbl>>)

\* validateWavelengths that drops index 0 of every list of 139 or more
validateWavelengthsFrom(wl, bbl) ==
    IF Len(wl) # Len(bbl) THEN Raise("ValueError")
    ELSE IF Len(wl) >= SentinelLength THEN Ok(<<Tail(wl), Tail(bbl)>>)
    ELSE Ok(<<wl, bbl>>)

validateWavelengths(wl, bbl) ==
    IF Len(wl) # Len(bbl) THEN Raise("ValueError")
    ELSE IF Len(wl) = SentinelLength THEN Ok(<<Tail(wl), Tail(bbl)>>)
    ELSE Ok(<<wl, bbl>>)

\* the indices of the bands whose flag is not 0
GoodBandsOfNonZero(spectrum, bbl) ==
    SelectSeq([i \in 1..Len(spectrum) |-> i], LAMBDA i : PyInt(bbl[i]) # 0)

\* the 1-based indices i of spectrum with int(bbl[i]) == 1, in order
GoodBandsOf(spectrum, bbl) ==
    SelectSeq([i \in 1..Len(spectrum) |-> i], LAMBDA i : PyInt(bbl[i]) = 1)

\* removeBadBands that returns the values of the first bands instead of the
\* values of the kept ones
removeBadBandsFirst(spectrum, wl, bbl) ==
    LET keep == GoodBandsOf(spectrum, bbl)
    IN  <<[k \in 1..Len(keep) |-> wl[keep[k]]],
          [k \in 1..Len(keep) |-> spectrum[k]]>>

removeBadBands(spectrum, wl, bbl) ==
    LET keep == GoodBandsOf(spectrum, bbl)
    IN  <<[k \in 1..Len(keep) |-> wl[keep[k]]],
          [k \in 1..Len(keep) |-> spectrum[keep[k]]]>>

\* getGridElements with the column index as the outer one
getGridElementsColumnMajor(g) ==
    IF g = None \/ g = <<0, 0>> THEN << <<0, 0>> >>
    ELSE LET rows == PyRange(g[1])
             cols == PyRange(g[2])
         IN  [k \in 1..(Len(rows) * Len(cols)) |->
                 <<rows[((k - 1) % Len(rows)) + 1],
                   cols[((k - 1) \div Len(rows)) + 1]>>]

getGridElements(g) ==
    IF g = None \/ g = <<0, 0>> THEN << <<0, 0>> >>
    ELSE LET rows == PyRange(g[1])
             cols == PyRange(g[2])
         IN  [k \in 1..(Len(rows) * Len(cols)) |->
                 <<rows[((k - 1) \div Len(cols)) + 1],
                   cols[((k - 1) % Len(cols)) + 1]>>]

\* getEdgesForGrid with as many cells per axis as the effective grid asks for
getEdgesForGridNominal(edges, grid_real) ==
    IF grid_real[1] = 0 \/ grid_real[2] = 0 THEN Raise("ZeroDivisionError")
    ELSE
    LET height == PyIntDiv(edges[2] - edges[1], grid_real[1])
        width == PyIntDiv(edges[4] - edges[3], grid_real[2])
        nr == PyRange(grid_real[1])
        nc == PyRange(grid_real[2])
    IN  IF height = 0 \/ width = 0 THEN Raise("ZeroDivisionError")
        ELSE Ok([k \in 1..(Len(nr) * Len(nc)) |->
                  LET row_s == edges[1] + height * nr[((k - 1) \div Len(nc))  + 1]
                      col_s == edges[3] + width * nc[((k - 1) % Len(nc)) + 1]
                  IN  <<row_s, row_s + height, col_s, col_s + width>>])

\* getEdgesForGrid whose last row and column of cells take the remainder
getEdgesForGridStretched(edges, grid_real) ==
    IF grid_real[1] = 0 \/ grid_real[2] = 0 THEN Raise("ZeroDivisionError")
    ELSE
    LET height == PyIntDiv(edges[2] - edges[1], grid_real[1])
        width == PyIntDiv(edges[4] - edges[3], grid_real[2])
    IN  IF height = 0 \/ width = 0 THEN Raise("ZeroDivisionError")
        ELSE
        LET nr == PyRange(PyIntDiv(edges[2] - edges[1], height))
            nc == PyRange(PyIntDiv(edges[4] - edges[3], width))
        IN  Ok([k \in 1..(Len(nr) * Len(nc)) |->
                  LET i == ((k - 1) \div Len(nc)) + 1
                      j == ((k - 1) % Len(nc)) + 1
                      row_s == edges[1] + height * nr[i]
                      col_s == edges[3] + width * nc[j]
                  IN  <<row_s, IF i = Len(nr) THEN edges[2] ELSE row_s + height,
                        col_s, IF j = Len(nc) THEN edges[4] ELSE col_s + width>>])

\* getEdgesForGrid with the cell size rounded up, so that the cells of an axis
\* are at most as many as the effective count
getEdgesForGridCeil(edges, grid_real) ==
    IF grid_real[1] = 0 \/ grid_real[2] = 0 THEN Raise("ZeroDivisionError")
    ELSE
    LET height == (edges[2] - edges[1] + grid_real[1] - 1) \div grid_real[1]
        width == (edges[4] - edges[3] + grid_real[2] - 1) \div grid_real[2]
    IN  IF height = 0 \/ width = 0 THEN Raise("ZeroDivisionError")
        ELSE
        LET nr == PyRange(PyIntDiv(edges[2] - edges[1], height))
            nc == PyRange(PyIntDiv(edges[4] - edges[3], width))
        IN  Ok([k \in 1..(Len(nr) * Len(nc)) |->
                  LET row_s == edges[1] + height * nr[((k - 1) \div Len(nc)) + 1]
                      col_s == edges[3] + width * nc[((k - 1) % Len(nc)) + 1]
                  IN  <<row_s, row_s + height, col_s, col_s + width>>])

\* getEdgesForGrid that returns no cell where a cell would have no pixel
getEdgesForGridEmpty(edges, grid_real) ==
    IF grid_real[1] = 0 \/ grid_real[2] = 0 THEN Raise("ZeroDivisionError")
    ELSE
    LET height == PyIntDiv(edges[2] - edges[1], grid_real[1])
        width == PyIntDiv(edges[4] - edges[3], grid_real[2])
    IN  IF height = 0 \/ width = 0 THEN Ok(<<>>)
        ELSE
        LET nr == PyRange(PyIntDiv(edges[2] - edges[1], height))
            nc == PyRange(PyIntDiv(edges[4] - edges[3], width))
        IN  Ok([k \in 1..(Len(nr) * Len(nc)) |->
                  LET row_s == edges[1] + height * nr[((k - 1) \div Len(nc)) + 1]
                      col_s == edges[3] + width * nc[((k - 1) % Len(nc)) + 1]
                  IN  <<row_s, row_s + height, col_s, col_s + width>>])

getEdgesForGrid(edges, grid_real) ==
    IF grid_real[1] = 0 \/ grid_real[2] = 0 THEN Raise("ZeroDivisionError")
    ELSE
    LET height == PyIntDiv(edges[2] - edges[1], grid_real[1])
        width == PyIntDiv(edges[4] - edges[3], grid_real[2])
    IN  IF height = 0 \/ width = 0 THEN Raise("ZeroDivisionError")
        ELSE
        LET nr == PyRange(PyIntDiv(edges[2] - edges[1], height))
            nc == PyRange(PyIntDiv(edges[4] - edges[3], width))
            new_row_starts == [k \in 1..Len(nr) |-> edges[1] + height * nr[k]]
            new_col_starts == [k \in 1..Len(nc) |-> edges[3] + width * nc[k]]
        IN  Ok([k \in 1..(Len(nr) * Len(nc)) |->
                  LET row_s == new_row_starts[((k - 1) \div Len(nc)) + 1]
                      col_s == new_col_starts[((k - 1) % Len(nc)) + 1]
                  IN  <<row_s, row_s + height, col_s, col_s + width>>])

\* a numpy array of at most one dimension: shape <<n>> with n values, or
\* shape <<>> (0-dimensional) with the one value data[1]
NpArray(shape, data) == [shape |-> shape, data |-> data]

\* np.squeeze(a) of a list: every axis of length 1 is removed, so a list of
\* one value becomes a 0-dimensional array
NpSqueeze(a) ==
    IF Len(a) = 1 THEN NpArray(<<>>, a) ELSE NpArray(<<Len(a)>>, a)

\* the shape numpy broadcasts two such arrays to; ValueError ("operands could
\* not be broadcast together") for two different lengths
NpBroadcast(x, y) ==
    IF x.shape = <<>> THEN Ok(y.shape)
    ELSE IF y.shape = <<>> \/ x.shape = y.shape THEN Ok(x.shape)
    ELSE Raise("ValueError")

\* np.divide(x, y) * factor, element by element, of arrays that broadcast to
\* shape; a 0-dimensional operand supplies its one value to every element
NpDivideTimes(x, y, factor, shape) ==
    LET n == IF shape = <<>> THEN 1 ELSE shape[1]
        at(a, k) == IF a.shape = <<>> THEN a.data[1] ELSE a.data[k]
    IN  NpArray(shape,
                [k \in 1..n |-> RatMul(RatDiv(at(x, k), at(y, k)), factor)])

\* np.divide(np.squeeze(soil).astype(float),
\*           np.squeeze(spectralon).astype(float)) * spectralon_factor
getCalibratedSpectrum(soil, spectralon, spectralon_factor) ==
    With(NpSqueeze(soil), LAMBDA x :
    With(NpSqueeze(spectralon), LAMBDA y :
    With(NpBroadcast(x, y), LAMBDA shape :
        IF shape.status # "ok" THEN shape
        ELSE Ok(NpDivideTimes(x, y, spectralon_factor, shape.value)))))

----------------------------------------------------------------------------
(* ProcessFullDataset.py: the mask of a measurement                        *)

Pixels == (0..(NRows - 1)) \X (0..(NCols - 1))

\* getLineFromPoints and woodenBarLower(x) < y < woodenBarUpper(x), with the
\* slope m = dy/dx kept as a fraction: both sides are multiplied by dx
InWoodenBar(bar, x, y) ==
    LET dx == bar.p2[1] - bar.p1[1]
        dy == bar.p2[2] - bar.p1[2]
        upper == dy * (x - bar.p2[1]) + bar.p2[2] * dx
        lower == upper - dy * bar.height
    IN  IF dx > 0 THEN lower < y * dx /\ y * dx < upper
        ELSE upper < y * dx /\ y * dx < lower

getWoodenBarMask(bar) == {px \in Pixels : InWoodenBar(bar, px[1], px[2])}

getMask(m) ==
    [px \in Pixels |->
        IF \/ px[1] < m.start_row \/ px[1] >= m.end_row
           \/ px[2] < m.start_col \/ px[2] >= m.end_col
           \/ \E i \in 1..Len(m.bars) : px \in getWoodenBarMask(m.bars[i])
        THEN 0 ELSE 1]

----------------------------------------------------------------------------
(* class ProcessEnviFile                                                   *)

Modes == {"median", "mean", "max", "max10"}

\* getEdgesFromPrefix that answers a prefix without columns with the rectangle
\* of the whole image
getEdgesFromPrefixDefault(prefix) ==
    IF prefix \in DOMAIN positions THEN Ok(positions[prefix])
    ELSE Ok(<<0, NRows, 0, NCols>>)

\* self.positions[prefix + "_row_start"][self.index_of_meas], ...: a column the
\* table does not have is a KeyError
getEdgesFromPrefix(prefix) ==
    IF prefix \in DOMAIN positions THEN Ok(positions[prefix])
    ELSE Raise("KeyError")

\* for row in range(edges[0], edges[1]): for col in range(edges[2], edges[3])
RectPixels(edges) ==
    LET rows == PyRange2(edges[1], edges[2])
        cols == PyRange2(edges[3], edges[4])
    IN  [k \in 1..(Len(rows) * Len(cols)) |->
            <<rows[((k - 1) \div Len(cols)) + 1],
              cols[((k - 1) % Len(cols)) + 1]>>]

\* the mask test with the values exchanged: a pixel with mask value 0 is skipped
IsSkippedZero(px) == mask # None /\ mask[px] = 0

\* if self.mask is not None: if self.mask[row, col] == 1: continue
IsSkipped(px) == mask # None /\ mask[px] = 1

\* the list roi of band i (0-based)
Roi(edges, i) ==
    With(SelectSeq(RectPixels(edges), LAMBDA px : ~IsSkipped(px)),
         LAMBDA kept :
             [k \in 1..Len(kept) |-> image[<<kept[k][1], kept[k][2], i>>]])

\* the reduction of one band, with "max10" refusing a list of fewer than 10
ReduceStrict(mode, roi) ==
    CASE mode = "median" -> Ok(NpMedian(roi))
      [] mode = "mean" -> Ok(NpMean(roi))
      [] mode = "max" -> IF roi = <<>> THEN Raise("ValueError") ELSE Ok(NpMax(roi))
      [] mode = "max10" -> IF Len(roi) < TopN THEN Raise("ValueError")
                           ELSE Ok(NpMean(PyLast(NpSort(roi), TopN)))

\* the reduction of one band; np.max raises ValueError on an empty list
Reduce(mode, roi) ==
    CASE mode = "median" -> Ok(NpMedian(roi))
      [] mode = "mean" -> Ok(NpMean(roi))
      [] mode = "max" -> IF roi = <<>> THEN Raise("ValueError") ELSE Ok(NpMax(roi))
      [] mode = "max10" -> Ok(NpMean(PyLast(NpSort(roi), TopN)))

\* the loop over the raw bands with a final else branch: a mode that is none
\* of the four is reduced like "median"
BandReductionsDefault(edges, mode) ==
    [i \in 1..Len(wavelengths_original) |->
        With(Roi(edges, i - 1), LAMBDA roi :
            Reduce(IF mode \in Modes THEN mode ELSE "median", roi))]

\* the loop over the raw bands: one reduction per band; the if/elif chain has
\* no else, so that another mode appends nothing
BandReductions(edges, mode) ==
    IF mode \in Modes
    THEN [i \in 1..Len(wavelengths_original) |->
             With(Roi(edges, i - 1), LAMBDA roi : Reduce(mode, roi))]
    ELSE <<>>

getMeanSpectrumFromRectangle(edges, mode) ==
    With(BandReductions(edges, mode), LAMBDA bands :
        IF \E i \in 1..Len(bands) : bands[i].status # "ok"
        THEN Raise("ValueError")
        ELSE LET spectrum_mean == [i \in 1..Len(bands) |-> bands[i].value]
                 good == removeBadBands(spectrum_mean, wavelengths_original,
                                        bbl_original)
             IN  Ok(DataFrame(<<good[2]>>, good[1])))

\* getRealGridSize that takes the pixel extents of both axes as soon as one
\* configured count is 0
getRealGridSizeJoint(edges) ==
    IF grid = None \/ grid[1] = 0 \/ grid[2] = 0
    THEN <<edges[2] - edges[1], edges[4] - edges[3]>>
    ELSE grid

\* getRealGridSize that treats an absent grid as the default (1, 1)
getRealGridSizeDefault(edges) ==
    IF grid = None THEN <<1, 1>>
    ELSE <<IF grid[1] = 0 THEN edges[2] - edges[1] ELSE grid[1],
           IF grid[2] = 0 THEN edges[4] - edges[3] ELSE grid[2]>>

getRealGridSize(edges) ==
    IF grid = None
    THEN <<edges[2] - edges[1], edges[4] - edges[3]>>
    ELSE <<IF grid[1] = 0 THEN edges[2] - edges[1] ELSE grid[1],
           IF grid[2] = 0 THEN edges[4] - edges[3] ELSE grid[2]>>

\* self.grid_elements after getMeanSpectraFromSquareGrid(edges, ...): it is
\* assigned before anything in the method can raise
\* getMeanSpectraFromSquareGrid without its assignment of line 233
GridElementsKept(edges) == grid_elements

\* line 233: self.grid_elements = getGridElements(grid_real)
GridElementsAfter(edges) == getGridElements(getRealGridSize(edges))

\* the spectra of the sub-rectangles, up to and including the first that raises
SubSpectra(new_edges_list, mode) ==
    With([k \in 1..Len(new_edges_list) |->
             getMeanSpectrumFromRectangle(new_edges_list[k], mode)],
         LAMBDA all :
             LET bad == {k \in 1..Len(all) : all[k].status # "ok"}
             IN  IF bad = {} THEN all
                 ELSE SubSeq(all, 1, CHOOSE k \in bad : \A j \in bad : k <= j))

\* lines 240-244: the concatenation and the two label columns
LabelledSpectra(spectra_list, elements) ==
    With(PdConcat([k \in 1..Len(spectra_list) |-> spectra_list[k].value]),
         LAMBDA df :
             IF df.status # "ok" THEN df
             ELSE With(PdSetColumn(df.value, "GridElement_Row",
                           [k \in 1..Len(elements) |-> elements[k][1]]),
                       LAMBDA df1 :
                           IF df1.status # "ok" THEN df1
                           ELSE PdSetColumn(df1.value, "GridElement_Column",
                                    [k \in 1..Len(elements) |-> elements[k][2]])))

\* getMeanSpectraFromSquareGrid that assigns self.grid_elements only while the
\* field is None, and so labels its rows with the labels an earlier call left
getMeanSpectraFromSquareGridCached(edges, mode) ==
    With(getRealGridSize(edges), LAMBDA grid_real :
    With(getEdgesForGrid(edges, grid_real), LAMBDA new_edges_list :
        IF new_edges_list.status # "ok" THEN new_edges_list
        ELSE With(SubSpectra(new_edges_list.value, mode), LAMBDA spectra_list :
                 IF \E k \in 1..Len(spectra_list) : spectra_list[k].status # "ok"
                 THEN Raise("ValueError")
                 ELSE With(IF grid_elements = None
                           THEN getGridElements(grid_real) ELSE grid_elements,
                           LAMBDA elements :
                               LabelledSpectra(spectra_list, elements)))))

getMeanSpectraFromSquareGrid(edges, mode) ==
    With(getRealGridSize(edges), LAMBDA grid_real :
    With(getEdgesForGrid(edges, grid_real), LAMBDA new_edges_list :
        IF new_edges_list.status # "ok" THEN new_edges_list
        ELSE With(SubSpectra(new_edges_list.value, mode), LAMBDA spectra_list :
                 IF \E k \in 1..Len(spectra_list) : spectra_list[k].status # "ok"
                 THEN Raise("ValueError")
                 ELSE With(getGridElements(grid_real), LAMBDA elements :
                          LabelledSpectra(spectra_list, elements)))))

\* the aggregations getMeanSpectraFromSquareGrid(edges, mode) makes, in order
SquareGridTrace(edges, mode) ==
    With(getEdgesForGrid(edges, getRealGridSize(edges)), LAMBDA new_edges_list :
        IF new_edges_list.status # "ok" THEN <<>>
        ELSE With(SubSpectra(new_edges_list.value, mode), LAMBDA done :
                 [k \in 1..Len(done) |-> <<new_edges_list.value[k], mode>>]))

\* new_spectra[labels] = rows, for labels that are columns of the frame
PdAssign(df, labels, rows) ==
    DataFrame(
        [r \in 1..Len(df.data) |->
            [c \in 1..Len(df.columns) |->
                IF \E k \in 1..Len(labels) : labels[k] = df.columns[c]
                THEN rows[r][CHOOSE k \in 1..Len(labels) :
                                 labels[k] = df.columns[c]]
                ELSE df.data[r][c]]],
        df.columns)

\* getCalibratedSpectra that calibrates the first row of the table and puts
\* the result in every row
getCalibratedSpectraByFirstRow(spectra, spectralon, spectralon_factor) ==
    With(PdSelect(spectra, wavelengths), LAMBDA soil :
    With(PdSelect(spectralon, wavelengths)[1], LAMBDA reference :
    With([r \in 1..Len(soil) |->
             getCalibratedSpectrum(soil[1], reference,
                                   spectralon_factor).value.data],
         LAMBDA calibrated : PdAssign(spectra, wavelengths, calibrated))))

\* the two table arguments as they are after the call: line 267 takes a deep
\* copy, and line 275 assigns to the copy
getCalibratedSpectraArguments(spectra, spectralon) == <<spectra, spectralon>>

\* spectra[self.wavelengths].apply(getCalibratedSpectrumSimple, axis=1,
\* raw=True), assigned to the wavelength columns of the copy
getCalibratedSpectra(spectra, spectralon, spectralon_factor) ==
    With(PdSelect(spectra, wavelengths), LAMBDA soil :
    With(PdSelect(spectralon, wavelengths)[1], LAMBDA reference :
    With([r \in 1..Len(soil) |->
             getCalibratedSpectrum(soil[r], reference,
                                   spectralon_factor).value.data],
         LAMBDA calibrated : PdAssign(spectra, wavelengths, calibrated))))

\* getMultipleSpectra: what it asks of the methods above
ReferencePrefix == "spec"
ReferenceModeMax == "max"
ReferenceMode == "max10"
ZoneMode == "median"
SpectralonFactor == Rat(SpectralonFactorPct, 100)

RECURSIVE ZoneSpectraCali(_, _)
\* getMultipleSpectra, lines 96-105: the calibrated tables of the zones zs, or
\* the first error
ZoneSpectraCali(zs, spectralon) ==
    IF zs = <<>> THEN Ok(<<>>)
    ELSE With(getEdgesFromPrefix(Head(zs)), LAMBDA zone_edges :
        IF zone_edges.status # "ok" THEN zone_edges
        ELSE With(getMeanSpectraFromSquareGrid(zone_edges.value, ZoneMode),
                  LAMBDA df_zone :
            IF df_zone.status # "ok" THEN df_zone
            ELSE With(ZoneSpectraCali(Tail(zs), spectralon), LAMBDA rest :
                IF rest.status # "ok" THEN rest
                ELSE Ok(<<getCalibratedSpectra(
                              PdSetScalar(df_zone.value, "zone", Head(zs)),
                              spectralon, SpectralonFactor)>> \o rest.value))))

\* getMultipleSpectra from its first line to its return
getMultipleSpectra ==
    With(getEdgesFromPrefix(ReferencePrefix), LAMBDA spec_edges :
        IF spec_edges.status # "ok" THEN spec_edges
        ELSE With(getMeanSpectrumFromRectangle(spec_edges.value, ReferenceMode),
                  LAMBDA df_spec :
            IF df_spec.status # "ok" THEN df_spec
            ELSE With(ZoneSpectraCali(zone_list, df_spec.value), LAMBDA cali :
                IF cali.status # "ok" THEN cali ELSE PdConcat(cali.value))))

RECURSIVE GridElementsAfterZones(_, _)
\* self.grid_elements after the loop over the zones zs: the labels of the last
\* zone whose rectangle the loop has looked up
GridElementsAfterZones(zs, before) ==
    IF zs = <<>> THEN before
    ELSE With(getEdgesFromPrefix(Head(zs)), LAMBDA zone_edges :
        IF zone_edges.status # "ok" THEN before
        ELSE IF getMeanSpectraFromSquareGrid(zone_edges.value,
                                             ZoneMode).status # "ok"
        THEN GridElementsAfter(zone_edges.value)
        ELSE GridElementsAfterZones(Tail(zs),
                                    GridElementsAfter(zone_edges.value)))

\* self.grid_elements after getMultipleSpectra
GridElementsAfterMultipleSpectra ==
    With(getEdgesFromPrefix(ReferencePrefix), LAMBDA spec_edges :
        IF spec_edges.status # "ok" THEN grid_elements
        ELSE IF getMeanSpectrumFromRectangle(spec_edges.value,
                                             ReferenceMode).status # "ok"
        THEN grid_elements
        ELSE GridElementsAfterZones(zone_list, grid_elements))

----------------------------------------------------------------------------
(* Inputs                                                                  *)

Seeds == 0..1

PixelValue(seed, r, c, b) ==
    (seed * (r + c + 1) + 2 * r + 3 * c + r * c * (b + 1) + b) % MaxPix

ImageOf(seed) ==
    [p \in (0..(NRows - 1)) \X (0..(NCols - 1)) \X (0..(NBands - 1)) |->
        PixelValue(seed, p[1], p[2], p[3])]

Images == {ImageOf(seed) : seed \in Seeds}

\* the wavelength labels of the header are strings
HeaderWavelengths == [i \in 1..NBands |-> ToString(400 + 10 * i)]

\* a bbl of the header with band number bad (if any) marked "0"
BblWithout(bad) == [i \in 1..NBands |-> IF i = bad THEN "0" ELSE "1"]

HeaderBbls == {BblWithout(bad) : bad \in 0..2}

Rectangles == {e \in (0..NRows) \X (0..NRows) \X (0..NCols) \X (0..NCols) :
                  e[1] < e[2] /\ e[3] < e[4]}

Grids == {None} \cup ((0..MaxGrid) \X (0..MaxGrid))


ZoneLists == {<<>>, <<"zone1">>, <<"zone1", "zone2">>, <<"zone2", "zone1">>}

PositionTables ==
    {[spec |-> <<0, NRows, 0, NCols>>, zone1 |-> <<0, 2, 0, 3>>,
      zone2 |-> <<1, NRows, 1, NCols>>],
     [spec |-> <<0, 2, 1, 3>>, zone1 |-> <<0, NRows, 0, NCols>>,
      zone2 |-> <<1, 2, 2, 3>>]}

NoBar == [p1 |-> <<0, 0>>, p2 |-> <<1, 0>>, height |-> 0]

\* rows of the masks table: a frame that leaves two pixels unmasked, a frame
\* and a diagonal wooden bar, and a table row that masks nothing
MaskFrame ==
    [start_row |-> 0, end_row |-> 1, start_col |-> 0, end_col |-> 2,
     bars |-> <<NoBar, NoBar, NoBar, NoBar>>]

MaskBar ==
    [start_row |-> 0, end_row |-> NRows, start_col |-> 1, end_col |-> NCols,
     bars |-> <<[p1 |-> <<0, 1>>, p2 |-> <<NRows, NRows + 1>>, height |-> 2],
                NoBar, NoBar, NoBar>>]

MaskNothing ==
    [start_row |-> 0, end_row |-> NRows, start_col |-> 0, end_col |-> NCols,
     bars |-> <<NoBar, NoBar, NoBar, NoBar>>]

MaskRows == {MaskFrame, MaskBar, MaskNothing}

Masks == {None} \cup {getMask(m) : m \in MaskRows}

----------------------------------------------------------------------------
(* The state machine: an object after __init__, and the calls made on it.  *)

NoCall == [op |-> "", edges |-> <<>>, mode |-> "", grid_real |-> <<>>]
NoReturn == [status |-> "", value |-> <<>>]

\* ProcessEnviFile.__init__ on inputs drawn from the given sets
ConstructEnviFile(images, bbls, zone_lists, tables, masks, grids) ==
    /\ image \in images
    /\ \E bbl \in bbls :
         LET v == validateWavelengths(HeaderWavelengths, bbl)
         IN  /\ v.status = "ok"
             /\ wavelengths_original = v.value[1]
             /\ bbl_original = v.value[2]
             /\ wavelengths = removeBadBands(v.value[1], v.value[1], v.value[2])[1]
    /\ zone_list \in zone_lists
    /\ positions \in tables
    /\ mask \in masks
    /\ grid \in grids
    /\ grid_elements = None
    /\ pc = "idle"
    /\ df_spectralon = <<>>
    /\ zone_spectra_cali = <<>>
    /\ zone_i = 0
    /\ trace = <<>>
    /\ call = NoCall
    /\ ret = NoReturn

\* an object of ProcessEnviFile on its own
Construct(images, bbls, zone_lists, tables, masks, grids) ==
    /\ ConstructEnviFile(images, bbls, zone_lists, tables, masks, grids)
    /\ dataset = None
    /\ driver = None

\* getEdgesForGrid(edges, grid_real)
DoGetEdgesForGrid(edges, grid_real) ==
    /\ call' = [op |-> "getEdgesForGrid", edges |-> edges, mode |-> "",
                grid_real |-> grid_real]
    /\ ret' = getEdgesForGrid(edges, grid_real)
    /\ trace' = <<>>
    /\ UNCHANGED <<object, grid_elements, pc, locals>>

\* self.getMeanSpectrumFromRectangle(edges, mode)
DoGetMeanSpectrumFromRectangle(edges, mode) ==
    /\ call' = [op |-> "getMeanSpectrumFromRectangle", edges |-> edges,
                mode |-> mode, grid_real |-> <<>>]
    /\ ret' = getMeanSpectrumFromRectangle(edges, mode)
    /\ trace' = << <<edges, mode>> >>
    /\ UNCHANGED <<object, grid_elements, pc, locals>>

\* self.getMeanSpectraFromSquareGrid(edges, mode)
DoGetMeanSpectraFromSquareGrid(edges, mode) ==
    /\ call' = [op |-> "getMeanSpectraFromSquareGrid", edges |-> edges,
                mode |-> mode, grid_real |-> <<>>]
    /\ grid_elements' = GridElementsAfter(edges)
    /\ ret' = getMeanSpectraFromSquareGrid(edges, mode)
    /\ trace' = SquareGridTrace(edges, mode)
    /\ UNCHANGED <<object, pc, locals>>

\* getMultipleSpectra, lines 90-93: the spectrum of the spectralon
GetMultipleSpectraBegin ==
    /\ pc = "idle"
    /\ call' = [op |-> "getMultipleSpectra", edges |-> <<>>, mode |-> "",
                grid_real |-> <<>>]
    /\ \E spec_edges \in {getEdgesFromPrefix(ReferencePrefix)} :
         IF spec_edges.status # "ok"
         THEN /\ ret' = spec_edges
              /\ trace' = <<>>
              /\ UNCHANGED <<pc, locals>>
         ELSE \E df \in {getMeanSpectrumFromRectangle(spec_edges.value,
                                                      ReferenceMode)} :
                /\ trace' = << <<spec_edges.value, ReferenceMode>> >>
                /\ IF df.status # "ok"
                   THEN /\ ret' = df
                        /\ UNCHANGED <<pc, locals>>
                   ELSE /\ ret' = [status |-> "running", value |-> <<>>]
                        /\ pc' = "getMultipleSpectra"
                        /\ df_spectralon' = df.value
                        /\ zone_spectra_cali' = <<>>
                        /\ zone_i' = 1
    /\ UNCHANGED <<object, grid_elements>>

\* getMultipleSpectra, lines 97-105: one iteration of the loop over the zones
GetMultipleSpectraZone ==
    /\ pc = "getMultipleSpectra"
    /\ zone_i <= Len(zone_list)
    /\ \E zone \in {zone_list[zone_i]} :
       \E zone_edges \in {getEdgesFromPrefix(zone)} :
         IF zone_edges.status # "ok"
         THEN /\ ret' = zone_edges
              /\ pc' = "idle"
              /\ df_spectralon' = <<>>
              /\ zone_spectra_cali' = <<>>
              /\ zone_i' = 0
              /\ UNCHANGED <<grid_elements, trace>>
         ELSE \E df_zone \in {getMeanSpectraFromSquareGrid(zone_edges.value,
                                                           ZoneMode)} :
                /\ grid_elements' = GridElementsAfter(zone_edges.value)
                /\ trace' = trace \o SquareGridTrace(zone_edges.value, ZoneMode)
                /\ IF df_zone.status # "ok"
                   THEN /\ ret' = df_zone
                        /\ pc' = "idle"
                        /\ df_spectralon' = <<>>
                        /\ zone_spectra_cali' = <<>>
                        /\ zone_i' = 0
                   ELSE /\ zone_spectra_cali' =
                             Append(zone_spectra_cali,
                                 getCalibratedSpectra(
                                     PdSetScalar(df_zone.value, "zone", zone),
                                     df_spectralon, SpectralonFactor))
                        /\ zone_i' = zone_i + 1
                        /\ UNCHANGED <<pc, df_spectralon, ret>>
    /\ UNCHANGED <<object, call>>

\* getMultipleSpectra, lines 107-110: the concatenation and the return
GetMultipleSpectraEnd ==
    /\ pc = "getMultipleSpectra"
    /\ zone_i > Len(zone_list)
    /\ ret' = PdConcat(zone_spectra_cali)
    /\ pc' = "idle"
    /\ df_spectralon' = <<>>
    /\ zone_spectra_cali' = <<>>
    /\ zone_i' = 0
    /\ UNCHANGED <<object, grid_elements, trace, call>>

----------------------------------------------------------------------------
(* Spec: an object of the pipeline and any sequence of calls on it, the    *)
(* direct calls made with the rectangles of the positions table.           *)

PositionRectangles == {positions[p] : p \in DOMAIN positions}

Init ==
    Construct({ImageOf(1)}, {BblWithout(1)}, ZoneLists, PositionTables,
              {None, getMask(MaskBar)}, Grids)

CallGetMeanSpectrumFromRectangle ==
    /\ pc = "idle"
    /\ \E edges \in PositionRectangles, mode \in Modes :
         DoGetMeanSpectrumFromRectangle(edges, mode)

CallGetMeanSpectraFromSquareGrid ==
    /\ pc = "idle"
    /\ \E edges \in PositionRectangles, mode \in {"median", "max"} :
         DoGetMeanSpectraFromSquareGrid(edges, mode)

\* getEdgesForGrid with the effective grid of the object, or with its configured
\* grid as it is (a count of 0 included)
CallGetEdgesForGrid ==
    /\ pc = "idle"
    /\ \E edges \in PositionRectangles :
         \E grid_real \in {getRealGridSize(edges)} \cup ({grid} \ {None}) :
             DoGetEdgesForGrid(edges, grid_real)

Next ==
    \/ CallGetEdgesForGrid
    \/ CallGetMeanSpectrumFromRectangle
    \/ CallGetMeanSpectraFromSquareGrid
    \/ GetMultipleSpectraBegin
    \/ GetMultipleSpectraZone
    \/ GetMultipleSpectraEnd

Spec == Init /\ [][Next]_vars

----------------------------------------------------------------------------
(* SpecRect: one aggregation of a rectangle by a fresh object, with every  *)
(* rectangle of the image, every mode, image, mask and band list.          *)

DefaultTable == [spec |-> <<0, NRows, 0, NCols>>, zone1 |-> <<0, 2, 0, 3>>]

InitRect ==
    Construct(Images, HeaderBbls, {<<"zone1">>}, {DefaultTable}, Masks,
              {<<1, 1>>})

OneGetMeanSpectrumFromRectangle ==
    /\ call = NoCall
    /\ \E edges \in Rectangles, mode \in Modes :
         DoGetMeanSpectrumFromRectangle(edges, mode)

NextRect ==
    \/ OneGetMeanSpectrumFromRectangle

SpecRect == InitRect /\ [][NextRect]_vars

----------------------------------------------------------------------------
(* SpecSquare: one aggregation of a grid of sub-rectangles by a fresh      *)
(* object, with every rectangle of the image and every grid.               *)

InitSquare ==
    Construct(Images, {BblWithout(1)}, {<<"zone1">>}, {DefaultTable},
              {None, getMask(MaskBar)}, Grids)

OneGetMeanSpectraFromSquareGrid ==
    /\ call = NoCall
    /\ \E edges \in Rectangles, mode \in {"median", "max"} :
         DoGetMeanSpectraFromSquareGrid(edges, mode)

NextSquare ==
    \/ OneGetMeanSpectraFromSquareGrid

SpecSquare == InitSquare /\ [][NextSquare]_vars

----------------------------------------------------------------------------
(* SpecFn: one application of a module-level function to drawn arguments.  *)

FnRectangles ==
    {e \in (0..MaxCoord) \X (0..MaxCoord) \X (0..MaxCoord) \X (0..MaxCoord) :
        e[1] < e[2] /\ e[3] < e[4]}

GridReals == (0..MaxCoord) \X (0..MaxCoord)

InitFn ==
    Construct({ImageOf(0)}, {BblWithout(0)}, {<<"zone1">>}, {DefaultTable},
              {None}, {<<1, 1>>})

ApplyGetEdgesForGrid ==
    /\ call = NoCall
    /\ \E edges \in FnRectangles, grid_real \in GridReals :
         DoGetEdgesForGrid(edges, grid_real)

NextFn ==
    \/ ApplyGetEdgesForGrid

SpecFn == InitFn /\ [][NextFn]_vars

----------------------------------------------------------------------------
(* SpecGrid: one application of getRealGridSize by a fresh object with any *)
(* grid, or of getGridElements to any grid.                                *)

InitGrid ==
    Construct({ImageOf(0)}, {BblWithout(0)}, {<<"zone1">>}, {DefaultTable},
              {None}, Grids)

\* self.getRealGridSize(edges)
DoGetRealGridSize(edges) ==
    /\ call' = [op |-> "getRealGridSize", edges |-> edges, mode |-> "",
                grid_real |-> <<>>]
    /\ ret' = Ok(getRealGridSize(edges))
    /\ trace' = <<>>
    /\ UNCHANGED <<object, grid_elements, pc, locals>>

\* getGridElements(g)
DoGetGridElements(g) ==
    /\ call' = [op |-> "getGridElements", edges |-> <<>>, mode |-> "",
                grid_real |-> g]
    /\ ret' = Ok(getGridElements(g))
    /\ trace' = <<>>
    /\ UNCHANGED <<object, grid_elements, pc, locals>>

ApplyGetRealGridSize ==
    /\ call = NoCall
    /\ \E edges \in FnRectangles : DoGetRealGridSize(edges)

ApplyGetGridElements ==
    /\ call = NoCall
    /\ \E g \in {None} \cup GridReals : DoGetGridElements(g)

NextGrid ==
    \/ ApplyGetRealGridSize
    \/ ApplyGetGridElements

SpecGrid == InitGrid /\ [][NextGrid]_vars

----------------------------------------------------------------------------
(* SpecBands: one application of a function on band lists, or one          *)
(* construction, with drawn wavelengths, flags and spectra.                *)

FlagValues == {"0", "1", "2"}

\* lengths of band lists: short ones, and the lengths around 139
BandLengths ==
    (0..MaxLen) \cup {SentinelLength - 1, SentinelLength, SentinelLength + 1}

\* wavelengths, ascending from the zero-wavelength (kind 0) or with every
\* value twice (kind 1)
WavelengthList(kind, n) ==
    [i \in 1..n |-> IF kind = 0 THEN 10 * (i - 1) ELSE 10 * ((i - 1) \div 2)]

WavelengthLists == {WavelengthList(kind, n) : kind \in 0..1, n \in BandLengths}

\* flags of a long band list: all good, every other one bad, or a period of
\* "1", "0", "2"
FlagPattern(p, n) ==
    [i \in 1..n |->
        CASE p = 0 -> "1"
          [] p = 1 -> IF i % 2 = 1 THEN "0" ELSE "1"
          [] OTHER -> IF i % 3 = 1 THEN "1" ELSE IF i % 3 = 2 THEN "0" ELSE "2"]

FlagLists ==
    UNION {[1..n -> FlagValues] : n \in 0..MaxLen}
    \cup {FlagPattern(p, n) : p \in 0..2, n \in BandLengths \ (0..MaxLen)}

\* a spectrum of n bands
SpectrumList(n) == [i \in 1..n |-> RatOfInt((3 * i) % MaxPix)]

\* soil and reference spectra of the calibration, zero values included
CalSpectra ==
    UNION {[1..n -> {RatOfInt(v) : v \in 0..MaxCal}] : n \in 1..MaxSoilLen}

CalFactors == {SpectralonFactor, Rat(1, 2)}

\* validateWavelengths(wavelengths=wl, bbl=bbl)
DoValidateWavelengths(wl, bbl) ==
    /\ call' = [op |-> "validateWavelengths", edges |-> <<>>, mode |-> "",
                grid_real |-> <<>>, wavelengths |-> wl, bbl |-> bbl]
    /\ ret' = validateWavelengths(wl, bbl)
    /\ trace' = <<>>
    /\ UNCHANGED <<object, grid_elements, pc, locals>>

\* removeBadBands(spectrum, wavelengths=wl, bbl=bbl)
DoRemoveBadBands(spectrum, wl, bbl) ==
    /\ call' = [op |-> "removeBadBands", edges |-> <<>>, mode |-> "",
                grid_real |-> <<>>, spectrum |-> spectrum,
                wavelengths |-> wl, bbl |-> bbl]
    /\ ret' = Ok(removeBadBands(spectrum, wl, bbl))
    /\ trace' = <<>>
    /\ UNCHANGED <<object, grid_elements, pc, locals>>

\* ProcessEnviFile(image, wavelengths=wl, bbl=bbl, ...): lines 63-67 of
\* __init__, returning the band lists of the new object
DoInit(wl, bbl) ==
    /\ call' = [op |-> "__init__", edges |-> <<>>, mode |-> "",
                grid_real |-> <<>>, wavelengths |-> wl, bbl |-> bbl]
    /\ \E v \in {validateWavelengths(wl, bbl)} :
         ret' = IF v.status # "ok" THEN v
                ELSE Ok([wavelengths_original |-> v.value[1],
                         bbl_original |-> v.value[2],
                         wavelengths |->
                             removeBadBands(v.value[1], v.value[1],
                                            v.value[2])[1]])
    /\ trace' = <<>>
    /\ UNCHANGED <<object, grid_elements, pc, locals>>

\* getCalibratedSpectrum(soil, spectralon, spectralon_factor)
DoGetCalibratedSpectrum(soil, spectralon, spectralon_factor) ==
    /\ call' = [op |-> "getCalibratedSpectrum", edges |-> <<>>, mode |-> "",
                grid_real |-> <<>>, soil |-> soil, spectralon |-> spectralon,
                spectralon_factor |-> spectralon_factor]
    /\ ret' = getCalibratedSpectrum(soil, spectralon, spectralon_factor)
    /\ trace' = <<>>
    /\ UNCHANGED <<object, grid_elements, pc, locals>>

ApplyValidateWavelengths ==
    /\ call = NoCall
    /\ \E wl \in WavelengthLists, bbl \in FlagLists :
         DoValidateWavelengths(wl, bbl)

ApplyRemoveBadBands ==
    /\ call = NoCall
    /\ \E wl \in WavelengthLists, bbl \in FlagLists :
         /\ Len(wl) = Len(bbl)
         /\ DoRemoveBadBands(SpectrumList(Len(wl)), wl, bbl)

ApplyInit ==
    /\ call = NoCall
    /\ \E wl \in WavelengthLists, bbl \in FlagLists : DoInit(wl, bbl)

ApplyGetCalibratedSpectrum ==
    /\ call = NoCall
    /\ \E soil \in CalSpectra, spectralon \in CalSpectra, f \in CalFactors :
         DoGetCalibratedSpectrum(soil, spectralon, f)

NextBands ==
    \/ ApplyValidateWavelengths
    \/ ApplyRemoveBadBands
    \/ ApplyInit
    \/ ApplyGetCalibratedSpectrum

SpecBands == InitFn /\ [][NextBands]_vars

----------------------------------------------------------------------------
(* SpecMode: one aggregation of a rectangle by a fresh object with a mode  *)
(* that is none of the four of the if/elif chain.                          *)

OtherModes == {"", "sum", "Median", "max5"}

OneGetMeanSpectrumOtherMode ==
    /\ call = NoCall
    /\ \E edges \in Rectangles, mode \in OtherModes :
         DoGetMeanSpectrumFromRectangle(edges, mode)

NextMode ==
    \/ OneGetMeanSpectrumOtherMode

SpecMode == InitRect /\ [][NextMode]_vars

----------------------------------------------------------------------------
(* SpecZones: getMultipleSpectra on objects whose positions table lacks    *)
(* the columns of the reference or of zones of the zone list.              *)

AllPositions ==
    [spec |-> <<0, NRows, 0, NCols>>, zone1 |-> <<0, 2, 0, 2>>,
     zone2 |-> <<2, 4, 0, 2>>, zone3 |-> <<1, 3, 2, 4>>]

\* the tables that have the columns of some of the four prefixes only
PartialTables ==
    {[p \in S |-> AllPositions[p]] : S \in SUBSET (DOMAIN AllPositions)}

LongZoneLists ==
    {<<>>, <<"zone1">>, <<"zone3">>, <<"zone1", "zone2">>, <<"zone2", "zone3">>,
     <<"zone1", "zone2", "zone3">>, <<"zone3", "zone1", "zone2">>,
     <<"zone2", "zone3", "zone1">>}

InitZones ==
    Construct({ImageOf(1)}, {BblWithout(1)}, LongZoneLists, PartialTables,
              {None}, {<<1, 1>>, <<2, 1>>})

NextZones ==
    \/ GetMultipleSpectraBegin
    \/ GetMultipleSpectraZone
    \/ GetMultipleSpectraEnd

SpecZones == InitZones /\ [][NextZones]_vars

----------------------------------------------------------------------------
(* SpecCal: one call of getCalibratedSpectra by a fresh object, on tables  *)
(* of one or two rows with the columns getMultipleSpectra gives them.      *)

\* the band values of a row, one per usable band
CalRow(a, b) ==
    [i \in 1..Len(wavelengths) |-> RatOfInt((a + b * i) % (MaxCal + 1))]

CalRows == {CalRow(a, b) : a \in 0..MaxCal, b \in 0..MaxCal}

LabelColumns == <<"GridElement_Row", "GridElement_Column", "zone">>

\* tables of spectra: the usable bands, the two label columns and the zone
CalTables ==
    {DataFrame(<<r1 \o <<0, 0, "zone1">> >>, wavelengths \o LabelColumns) :
         r1 \in CalRows}
    \cup {DataFrame(<<r1 \o <<0, 1, "zone2">>, r2 \o <<1, 0, "zone1">> >>,
                    wavelengths \o LabelColumns) :
              r1 \in CalRows, r2 \in CalRows}

\* spectra of the reference: one row, the usable bands
CalReferences == {DataFrame(<<r>>, wavelengths) : r \in CalRows}

InitCal ==
    Construct({ImageOf(0)}, HeaderBbls, {<<"zone1">>}, {DefaultTable}, {None},
              {<<1, 1>>})

\* self.getCalibratedSpectra(spectra, spectralon, spectralon_factor)
DoGetCalibratedSpectra(spectra, spectralon, spectralon_factor) ==
    /\ call' = [op |-> "getCalibratedSpectra", edges |-> <<>>, mode |-> "",
                grid_real |-> <<>>, spectra |-> spectra,
                spectralon |-> spectralon,
                spectralon_factor |-> spectralon_factor,
                arguments |-> getCalibratedSpectraArguments(spectra, spectralon)]
    /\ ret' = Ok(getCalibratedSpectra(spectra, spectralon, spectralon_factor))
    /\ trace' = <<>>
    /\ UNCHANGED <<object, grid_elements, pc, locals>>

OneGetCalibratedSpectra ==
    /\ call = NoCall
    /\ \E spectra \in CalTables, spectralon \in CalReferences :
         DoGetCalibratedSpectra(spectra, spectralon, SpectralonFactor)

NextCal ==
    \/ OneGetCalibratedSpectra

SpecCal == InitCal /\ [][NextCal]_vars

----------------------------------------------------------------------------
(* SpecRepeat: sequences of up to MaxCalls calls on one object, each call  *)
(* whole; trace is here the log of the calls made and of their returns.    *)

MaxCalls == 3

\* one call of a method: what it returns, and self.grid_elements after it
LoggedCall(c, r, elements) ==
    /\ pc = "idle"
    /\ Len(trace) < MaxCalls
    /\ call' = c
    /\ ret' = r
    /\ grid_elements' = elements
    /\ trace' = Append(trace, [call |-> c, ret |-> r])
    /\ UNCHANGED <<object, pc, locals>>

LoggedGetMeanSpectrumFromRectangle ==
    \E edges \in PositionRectangles :
        LoggedCall([op |-> "getMeanSpectrumFromRectangle", edges |-> edges,
                    mode |-> ReferenceMode, grid_real |-> <<>>],
                   getMeanSpectrumFromRectangle(edges, ReferenceMode),
                   grid_elements)

LoggedGetMeanSpectraFromSquareGrid ==
    \E edges \in PositionRectangles :
        LoggedCall([op |-> "getMeanSpectraFromSquareGrid", edges |-> edges,
                    mode |-> ZoneMode, grid_real |-> <<>>],
                   getMeanSpectraFromSquareGrid(edges, ZoneMode),
                   GridElementsAfter(edges))

LoggedGetCalibratedSpectra ==
    \E spectra \in {DataFrame(<<CalRow(1, 1) \o <<0, 0, "zone1">> >>,
                              wavelengths \o LabelColumns),
                    DataFrame(<<CalRow(1, 1) \o <<0, 0, "zone1">>,
                                CalRow(2, 0) \o <<0, 1, "zone1">> >>,
                              wavelengths \o LabelColumns)} :
        LoggedCall([op |-> "getCalibratedSpectra", edges |-> <<>>, mode |-> "",
                    grid_real |-> <<>>, spectra |-> spectra,
                    spectralon |-> DataFrame(<<CalRow(2, 1)>>, wavelengths),
                    spectralon_factor |-> SpectralonFactor],
                   Ok(getCalibratedSpectra(spectra,
                          DataFrame(<<CalRow(2, 1)>>, wavelengths),
                          SpectralonFactor)),
                   grid_elements)

LoggedGetMultipleSpectra ==
    LoggedCall([op |-> "getMultipleSpectra", edges |-> <<>>, mode |-> "",
                grid_real |-> <<>>],
               getMultipleSpectra, GridElementsAfterMultipleSpectra)

InitRepeat ==
    Construct({ImageOf(1)}, {BblWithout(1)}, {<<"zone1", "zone2">>},
              PositionTables, {None}, {None, <<1, 1>>, <<0, 2>>, <<2, 2>>})

NextRepeat ==
    \/ LoggedGetMeanSpectrumFromRectangle
    \/ LoggedGetMeanSpectraFromSquareGrid
    \/ LoggedGetCalibratedSpectra
    \/ LoggedGetMultipleSpectra

SpecRepeat == InitRepeat /\ [][NextRepeat]_vars

----------------------------------------------------------------------------
(* formatTime of ProcessEnviFile.py. A string is the sequence of its       *)
(* characters.                                                             *)

Digits == <<"0", "1", "2", "3", "4", "5", "6", "7", "8", "9">>

\* int(c) of one digit
DigitValue(c) == (CHOOSE d \in 1..10 : Digits[d] = c) - 1

RECURSIVE PyIntOfStr(_)
\* int(s) of a string of digits
PyIntOfStr(s) ==
    IF s = <<>> THEN 0
    ELSE 10 * PyIntOfStr(SubSeq(s, 1, Len(s) - 1)) + DigitValue(s[Len(s)])

RECURSIVE PyStr(_)
\* str(n) of an integer n >= 0
PyStr(n) ==
    IF n < 10 THEN <<Digits[n + 1]>>
    ELSE Append(PyStr(n \div 10), Digits[(n % 10) + 1])

RECURSIVE PySplit(_, _)
\* s.split(sep) for a separator of one character
PySplit(s, sep) ==
    IF \A k \in 1..Len(s) : s[k] # sep THEN <<s>>
    ELSE LET k == CHOOSE i \in 1..Len(s) :
                      s[i] = sep /\ \A j \in 1..(i - 1) : s[j] # sep
         IN  <<SubSeq(s, 1, k - 1)>> \o PySplit(SubSeq(s, k + 1, Len(s)), sep)

\* hour, minute, second = time.split(":"); the hour of a "P" time before 12 is
\* rewritten, every other time is returned as it is
formatTime(time, ampm) ==
    LET parts == PySplit(time, ":")
    IN  IF Len(parts) # 3 THEN Raise("ValueError")
        ELSE IF ampm = <<>> THEN Raise("IndexError")
        ELSE IF ampm[1] = "P" /\ PyIntOfStr(parts[1]) < 12
        THEN Ok(PyStr((PyIntOfStr(parts[1]) + 12) % 24) \o <<":">> \o parts[2]
                \o <<":">> \o parts[3])
        ELSE Ok(time)

----------------------------------------------------------------------------
(* SpecTime: formatTime applied once to a 12-hour time and its marker.     *)

\* the two digits of a minute or second
TwoDigits(n) == <<Digits[(n \div 10) + 1], Digits[(n % 10) + 1]>>

\* "h:mm:ss"
TimeString(h, m, s) ==
    PyStr(h) \o <<":">> \o TwoDigits(m) \o <<":">> \o TwoDigits(s)

ClockHours == 1..12
ClockMinutes == {0, 2, 30, 59}
ClockSeconds == {0, 24, 59}

\* markers as readEnviHeader and the tests pass them
Markers == {<<"A">>, <<"P">>, <<"A", "M">>, <<"P", "M">>}

\* formatTime(time, ampm)
DoFormatTime(time, ampm) ==
    /\ call' = [op |-> "formatTime", edges |-> <<>>, mode |-> "",
                grid_real |-> <<>>, time |-> time, ampm |-> ampm]
    /\ ret' = formatTime(time, ampm)
    /\ trace' = <<>>
    /\ UNCHANGED <<object, grid_elements, pc, locals>>

ApplyFormatTime ==
    /\ call = NoCall
    /\ \E h \in ClockHours, m \in ClockMinutes, s \in ClockSeconds,
          ampm \in Markers :
         DoFormatTime(TimeString(h, m, s), ampm)

NextTime ==
    \/ ApplyFormatTime

SpecTime == InitFn /\ [][NextTime]_vars

----------------------------------------------------------------------------
(* class ProcessFullDataset. The fields it shares with the ProcessEnviFile *)
(* it builds (envi_img, wavelengths, bbl, zone_list, positions_hyp, grid,  *)
(* mask) are the variables of that object; dataset holds the others. Times *)
(* are minutes.                                                            *)

DatasetBands == 6     \* raw bands of the images of a dataset
EmptyCheckBand == 5   \* np.sum(self.envi_img[:, :, 5])

\* the sensors of getAllSoilMoistureSensors, depths in mm
AllSoilMoistureSensors ==
    [number |-> <<36554, 36555, 36556, 36547, 36557, 36558,
                  36559, 36553, 36549, 36550, 36551, 36552,
                  36560, 36562, 36563, 36564, 36565, 36561>>,
     zone |-> <<"A1", "A1", "A1", "A2", "B1", "B1", "B1", "B2", "C1",
                "C1", "C1", "C1", "C2", "D1", "D1", "D1", "D1", "D2">>,
     depth |-> <<25, 50, 100, 50, 25, 50, 100, 50, 25,
                 50, 100, 200, 50, 25, 50, 100, 200, 50>>]

\* np.unique(sensors["zone"].values): the zones once each, sorted
UniqueSensorZones ==
    SelectSeq(<<"A1", "A2", "B1", "B2", "C1", "C2", "D1", "D2">>,
              LAMBDA z : \E i \in 1..Len(AllSoilMoistureSensors.zone) :
                             AllSoilMoistureSensors.zone[i] = z)

\* per zone the sensor of least depth (argmin: the first of equal depths)
getUppermostSoilMoistureSensors ==
    [k \in 1..Len(UniqueSensorZones) |->
        LET S == AllSoilMoistureSensors
            of_zone == {i \in 1..Len(S.zone) : S.zone[i] = UniqueSensorZones[k]}
            least == {i \in of_zone : \A j \in of_zone : S.depth[i] <= S.depth[j]}
            i == CHOOSE i \in least : \A j \in least : i <= j
        IN  [number |-> S.number[i], zone |-> S.zone[i], depth |-> S.depth[i]]]

zone_dict ==
    [A1 |-> "zone1", A2 |-> "zone2", B1 |-> "zone3", B2 |-> "zone4",
     C1 |-> "zone5", C2 |-> "zone6", D1 |-> "zone7", D2 |-> "zone8"]

\* min(date_list, key=lambda x: abs(x - date)) and the signed difference
\* (nearest_date - date) in minutes; min of an empty list is a ValueError
findNearestDate(date_list, date) ==
    IF date_list = <<>> THEN Raise("ValueError")
    ELSE LET best == {i \in 1..Len(date_list) :
                         \A j \in 1..Len(date_list) :
                             Abs(date_list[i] - date) <= Abs(date_list[j] - date)}
             k == CHOOSE i \in best : \A j \in best : i <= j
         IN  Ok(<<date_list[k], date_list[k] - date>>)

\* df_sm[df_sm["sensorID"] == "T" + str(sensor)]
SensorRows(number) ==
    SelectSeq(dataset.soilmoisture, LAMBDA row : row.sensorID = <<"T", number>>)

RECURSIVE SoilMoistureRows(_)
\* getSoilMoistureData, lines 191-218: the loop over the sensors
SoilMoistureRows(sensors) ==
    IF sensors = <<>> THEN Ok(<<>>)
    ELSE LET sensor == Head(sensors)
             rows == SensorRows(sensor.number)
         IN  IF \A k \in 1..Len(zone_list) : zone_list[k] # zone_dict[sensor.zone]
             THEN SoilMoistureRows(Tail(sensors))
             ELSE With(findNearestDate([k \in 1..Len(rows) |-> rows[k].timestamp],
                                       dataset.datetime),
                       LAMBDA nearest :
                 IF nearest.status # "ok" THEN nearest
                 ELSE IF 2 * nearest.value[2] > dataset.time_window_width
                 THEN SoilMoistureRows(Tail(sensors))
                 ELSE With(SoilMoistureRows(Tail(sensors)), LAMBDA rest :
                     IF rest.status # "ok" THEN rest
                     ELSE LET nearest_row ==
                                  SelectSeq(rows, LAMBDA row :
                                      row.timestamp = nearest.value[1])[1]
                          IN  Ok(<< <<zone_dict[sensor.zone], nearest_row.volSM,
                                      nearest_row.T_C>> >> \o rest.value)))

getSoilMoistureData ==
    With(SoilMoistureRows(getUppermostSoilMoistureSensors), LAMBDA rows :
        IF rows.status # "ok" THEN rows
        ELSE Ok(DataFrame(rows.value, <<"zone", "volSM_vol%", "T_C">>)))

\* the column "ir_<zone>_<stat>" of the row getIRDataFromMultipleZones reads
\* from the export file of a date
getIRDataFromMultipleZones(date, zone, stat) == <<"ir", date, zone, stat>>

\* getLwirData: dataset.lwir is the list of the dates of the export files
getLwirData ==
    With(findNearestDate(dataset.lwir, dataset.datetime), LAMBDA nearest :
        IF nearest.status # "ok" THEN nearest
        ELSE IF 2 * nearest.value[2] > dataset.time_window_width
        THEN Ok(DataFrame(<< <<NaN, NaN, NaN, NaN>> >>,
                          <<"zone", "mean", "med", "std">>))
        ELSE Ok(DataFrame(
                 [k \in 1..Len(zone_list) |->
                     <<zone_list[k],
                       getIRDataFromMultipleZones(nearest.value[1], zone_list[k],
                                                  "mean"),
                       getIRDataFromMultipleZones(nearest.value[1], zone_list[k],
                                                  "med"),
                       getIRDataFromMultipleZones(nearest.value[1], zone_list[k],
                                                  "std")>>],
                 <<"zone", "mean", "med", "std">>)))

\* df.drop(labels=[label], axis=1)
PdDrop(df, label) ==
    LET keep == SelectSeq([c \in 1..Len(df.columns) |-> c],
                          LAMBDA c : df.columns[c] # label)
    IN  DataFrame([r \in 1..Len(df.data) |->
                      [k \in 1..Len(keep) |-> df.data[r][keep[k]]]],
                  [k \in 1..Len(keep) |-> df.columns[keep[k]]])

\* pd.concat(frames, axis=1) of frames with the indices 0..n-1: the columns
\* side by side, row k of each frame in row k, NaN where a frame is shorter
PdConcatColumns(frames) ==
    LET lengths == {Len(frames[f].data) : f \in 1..Len(frames)}
        n == CHOOSE m \in lengths : \A l \in lengths : l <= m
        padded(f, k) == IF k <= Len(frames[f].data) THEN frames[f].data[k]
                        ELSE [c \in 1..Len(frames[f].columns) |-> NaN]
    IN  DataFrame([k \in 1..n |->
                      Flatten([f \in 1..Len(frames) |-> padded(f, k)])],
                  Flatten([f \in 1..Len(frames) |-> frames[f].columns]))

\* the positions of the measurement in masks["measurement"], as indices
MaskIndices ==
    {k - 1 : k \in {i \in 1..Len(dataset.masks.measurement) :
                       dataset.masks.measurement[i] = dataset.meas_name}}

\* np.sum(self.envi_img[:, :, 5])
EmptyCheckSum ==
    SeqSum([k \in 1..(NRows * NCols) |->
               image[<<(k - 1) \div NCols, (k - 1) % NCols, EmptyCheckBand>>]])

\* process with the check of the image made before the check of the masks
processGuardsImageFirst ==
    IF DatasetBands <= EmptyCheckBand THEN Raise("IndexError")
    ELSE IF EmptyCheckSum = 0 THEN Ok(None)
    ELSE IF dataset.masks # None /\ MaskIndices = {} THEN Raise("IndexError")
    ELSE IF dataset.masks # None
            /\ dataset.index_of_meas # (CHOOSE i \in MaskIndices :
                                            \A j \in MaskIndices : i <= j)
    THEN Raise("IOError")
    ELSE [status |-> "running", value |-> <<>>]

\* process, lines 125-142: what the two checks let through
processGuards ==
    IF dataset.masks # None /\ MaskIndices = {} THEN Raise("IndexError")
    ELSE IF dataset.masks # None
            /\ dataset.index_of_meas # (CHOOSE i \in MaskIndices :
                                            \A j \in MaskIndices : i <= j)
    THEN Raise("IOError")
    ELSE IF DatasetBands <= EmptyCheckBand THEN Raise("IndexError")
    ELSE IF EmptyCheckSum = 0 THEN Ok(None)
    ELSE [status |-> "running", value |-> <<>>]

\* process, lines 125-142
ProcessCheck ==
    /\ pc = "idle"
    /\ call = NoCall
    /\ call' = [op |-> "process", edges |-> <<>>, mode |-> "",
                grid_real |-> <<>>]
    /\ ret' = processGuards
    /\ pc' = IF processGuards.status = "running" THEN "process" ELSE "idle"
    /\ mask' = IF dataset.masks # None /\ processGuards.status \in {"ok", "running"}
               THEN getMask(dataset.masks.rows[dataset.index_of_meas + 1])
               ELSE mask
    /\ trace' = <<>>
    /\ UNCHANGED <<image, wavelengths_original, bbl_original, wavelengths,
                   zone_list, positions, grid, grid_elements, locals, dataset,
                   driver>>

\* process, lines 145-167: the sub-operations made, and the return
processExtract ==
    With(getMultipleSpectra, LAMBDA df_hyp :
        IF df_hyp.status # "ok"
        THEN [ret |-> df_hyp, trace |-> <<"getMultipleSpectra">>]
        ELSE With(getSoilMoistureData, LAMBDA df_hyd :
            IF df_hyd.status # "ok"
            THEN [ret |-> df_hyd,
                  trace |-> <<"getMultipleSpectra", "getSoilMoistureData">>]
            ELSE With(getLwirData, LAMBDA df_lwir :
                [ret |-> IF df_lwir.status # "ok" THEN df_lwir
                         ELSE Ok(PdConcatColumns(
                                  <<PdSetScalar(df_hyp.value, "datetime",
                                                dataset.datetime),
                                    PdDrop(df_hyd.value, "zone"),
                                    PdDrop(df_lwir.value, "zone")>>)),
                 trace |-> <<"getMultipleSpectra", "getSoilMoistureData",
                             "getLwirData">>])))

ProcessExtract ==
    /\ pc = "process"
    /\ \E done \in {processExtract} :
         /\ ret' = done.ret
         /\ trace' = done.trace
    /\ grid_elements' = GridElementsAfterMultipleSpectra
    /\ pc' = "idle"
    /\ UNCHANGED <<object, locals, call>>

\* self.getSoilMoistureData()
CallGetSoilMoistureData ==
    /\ call = NoCall
    /\ call' = [op |-> "getSoilMoistureData", edges |-> <<>>, mode |-> "",
                grid_real |-> <<>>]
    /\ ret' = getSoilMoistureData
    /\ trace' = <<"getSoilMoistureData">>
    /\ UNCHANGED <<object, grid_elements, pc, locals>>

\* self.getLwirData()
CallGetLwirData ==
    /\ call = NoCall
    /\ call' = [op |-> "getLwirData", edges |-> <<>>, mode |-> "",
                grid_real |-> <<>>]
    /\ ret' = getLwirData
    /\ trace' = <<"getLwirData">>
    /\ UNCHANGED <<object, grid_elements, pc, locals>>

----------------------------------------------------------------------------
(* SpecData: one ProcessFullDataset, and one call of process,              *)
(* getSoilMoistureData or getLwirData on it.                               *)

\* an image of DatasetBands bands; kind 0 is all zeros, kind 1 has zeros in
\* band EmptyCheckBand only
DatasetImage(kind) ==
    [p \in (0..(NRows - 1)) \X (0..(NCols - 1)) \X (0..(DatasetBands - 1)) |->
        IF kind = 0 \/ (kind = 1 /\ p[3] = EmptyCheckBand) THEN 0
        ELSE 1 + PixelValue(1, p[1], p[2], p[3])]

DatasetWavelengths == [i \in 1..DatasetBands |-> ToString(400 + 10 * i)]
DatasetBbl == [i \in 1..DatasetBands |-> IF i = 2 THEN "0" ELSE "1"]

\* the masks table: the rows of two measurements in the order of positions_hyp,
\* in the other order, and a table without measurement "m0"
MaskTables ==
    {None,
     [measurement |-> <<"m0", "m1">>, rows |-> <<MaskBar, MaskNothing>>],
     [measurement |-> <<"m1", "m0">>, rows |-> <<MaskNothing, MaskBar>>],
     [measurement |-> <<"m1">>, rows |-> <<MaskNothing>>]}

ImageTime == 20
TimeWindowWidth == 6

\* the times of the measurements of one sensor, as the file lists them
SensorTimes == {<<20>>, <<22, 17>>, <<30>>, <<10, 40>>}

\* the rows of the soil moisture file for the times ts of a sensor
SensorFile(number, ts) ==
    [k \in 1..Len(ts) |->
        [sensorID |-> <<"T", number>>, timestamp |-> ts[k],
         volSM |-> <<"volSM", number, ts[k]>>, T_C |-> <<"T_C", number, ts[k]>>]]

\* the dates of the LWIR export files
LwirTimes == {<<>>, <<21>>, <<10, 40>>, <<30>>, <<19, 28>>}

Datasets ==
    {[meas_name |-> "m0", index_of_meas |-> 0, masks |-> m,
      datetime |-> ImageTime, time_window_width |-> TimeWindowWidth,
      soilmoisture |-> SensorFile(36554, t1) \o SensorFile(36547, t2)
                       \o SensorFile(36557, <<20>>),
      lwir |-> l] :
         m \in MaskTables, t1 \in SensorTimes, t2 \in SensorTimes,
         l \in LwirTimes}

InitData ==
    /\ image \in {DatasetImage(kind) : kind \in 0..2}
    /\ LET v == validateWavelengths(DatasetWavelengths, DatasetBbl)
       IN  /\ wavelengths_original = v.value[1]
           /\ bbl_original = v.value[2]
           /\ wavelengths = removeBadBands(v.value[1], v.value[1], v.value[2])[1]
    /\ zone_list \in {<<"zone1">>, <<"zone1", "zone2">>, <<"zone2", "zone1">>}
    /\ positions = AllPositions
    /\ mask = None
    /\ grid \in {<<1, 1>>, <<2, 1>>}
    /\ grid_elements = None
    /\ pc = "idle"
    /\ df_spectralon = <<>>
    /\ zone_spectra_cali = <<>>
    /\ zone_i = 0
    /\ trace = <<>>
    /\ call = NoCall
    /\ ret = NoReturn
    /\ dataset \in Datasets
    /\ driver = None

NextData ==
    \/ ProcessCheck
    \/ ProcessExtract
    \/ CallGetSoilMoistureData
    \/ CallGetLwirData

SpecData == InitData /\ [][NextData]_vars

----------------------------------------------------------------------------
(* processHydReSGeoDataset. A header of the list stands for its image by   *)
(* what process makes of it: a datapoint, None, or the IOError.            *)

MaxHeaders == 2

PrintedFileExists ==
    <<"Processing not executed, file already exists.",
      "To overwrite the existing file, change the config.">>

\* lines 570-573: the test of the flag and of the output file, and what it does
DriverBegin ==
    /\ pc = "idle"
    /\ call = NoCall
    /\ call' = [op |-> "processHydReSGeoDataset", edges |-> <<>>, mode |-> "",
                grid_real |-> <<>>]
    /\ driver' = [driver EXCEPT
                    !.output_list = <<>>,
                    !.printed = IF ~driver.overwrite_csv_file
                                   /\ driver.data_output # None
                                THEN PrintedFileExists ELSE <<>>,
                    !.i = 1]
    /\ pc' = "processHydReSGeoDataset"
    /\ ret' = [status |-> "running", value |-> <<>>]
    /\ trace' = <<>>
    /\ UNCHANGED <<image, wavelengths_original, bbl_original, wavelengths,
                   zone_list, positions, mask, grid, grid_elements, locals,
                   dataset>>

\* lines 576-623: one iteration of the loop over the headers
DriverHeader ==
    /\ pc = "processHydReSGeoDataset"
    /\ driver.i <= Len(driver.hyp_hdr_list)
    /\ LET hyp_header == driver.hyp_hdr_list[driver.i]
           ignored ==
               \/ hyp_header.meas_name \in driver.ignore_hyp_measurements
               \/ <<hyp_header.meas_name, hyp_header.file_number>>
                      \in driver.ignore_hyp_datapoints
       IN  IF ignored
           THEN /\ driver' = [driver EXCEPT !.i = driver.i + 1]
                /\ UNCHANGED <<pc, ret, trace>>
           ELSE /\ trace' = Append(trace, <<hyp_header, "process">>)
                /\ IF hyp_header.process = "IOError"
                   THEN /\ ret' = Raise("IOError")
                        /\ pc' = "idle"
                        /\ UNCHANGED driver
                   ELSE /\ driver' =
                             [driver EXCEPT
                                !.i = driver.i + 1,
                                !.output_list =
                                    IF hyp_header.process = "None"
                                    THEN driver.output_list
                                    ELSE Append(driver.output_list,
                                                <<hyp_header.meas_name,
                                                  hyp_header.file_number>>)]
                        /\ UNCHANGED <<pc, ret>>
    /\ UNCHANGED <<image, wavelengths_original, bbl_original, wavelengths,
                   zone_list, positions, mask, grid, grid_elements, locals,
                   dataset, call>>

\* lines 624-629: pd.concat of the datapoints ("No objects to concatenate"
\* is a ValueError) and output_df.to_csv(config["data_output"])
DriverEnd ==
    /\ pc = "processHydReSGeoDataset"
    /\ driver.i > Len(driver.hyp_hdr_list)
    /\ IF driver.output_list = <<>>
       THEN /\ ret' = Raise("ValueError")
            /\ UNCHANGED driver
       ELSE /\ ret' = Ok(driver.output_list)
            /\ driver' = [driver EXCEPT !.data_output = driver.output_list]
    /\ pc' = "idle"
    /\ UNCHANGED <<image, wavelengths_original, bbl_original, wavelengths,
                   zone_list, positions, mask, grid, grid_elements, locals,
                   dataset, call, trace>>

----------------------------------------------------------------------------
(* SpecDriver: one run of processHydReSGeoDataset.                         *)

\* the content of an output file written by an earlier run
OldCsv == <<"old">>

Headers ==
    {[meas_name |-> "m0", file_number |-> 1, process |-> "datapoint"],
     [meas_name |-> "m0", file_number |-> 2, process |-> "None"],
     [meas_name |-> "m1", file_number |-> 1, process |-> "datapoint"],
     [meas_name |-> "m1", file_number |-> 2, process |-> "IOError"]}

Drivers ==
    {[overwrite_csv_file |-> o, data_output |-> f, hyp_hdr_list |-> l,
      ignore_hyp_measurements |-> m, ignore_hyp_datapoints |-> d,
      output_list |-> <<>>, printed |-> <<>>, i |-> 0] :
         o \in BOOLEAN, f \in {None, OldCsv},
         l \in UNION {[1..n -> Headers] : n \in 0..MaxHeaders},
         m \in {{}, {"m1"}}, d \in {{}, {<<"m0", 2>>}}}

InitDriver ==
    /\ ConstructEnviFile({ImageOf(0)}, {BblWithout(0)}, {<<"zone1">>},
                         {DefaultTable}, {None}, {<<1, 1>>})
    /\ dataset = None
    /\ driver \in Drivers

NextDriver ==
    \/ DriverBegin
    \/ DriverHeader
    \/ DriverEnd

SpecDriver == InitDriver /\ [][NextDriver]_vars

----------------------------------------------------------------------------
(* Properties of getEdgesForGrid (SpecFn).                                 *)

RowExtent(e) == e[2] - e[1]
ColExtent(e) == e[4] - e[3]

\* pixel (r, c) lies in the half-open rectangle e
InRectangle(r, c, e) == e[1] <= r /\ r < e[2] /\ e[3] <= c /\ c < e[4]

\* the pixels of the half-open rectangle e
PixelsOf(e) == {px \in (e[1]..(e[2] - 1)) \X (e[3]..(e[4] - 1)) : TRUE}

AppliedGetEdgesForGrid == call.op = "getEdgesForGrid"

\* the effective grid of the call has between 1 and extent cells on each axis
EffectiveGridFits ==
    /\ call.grid_real[1] \in 1..RowExtent(call.edges)
    /\ call.grid_real[2] \in 1..ColExtent(call.edges)

\* C1: for a rectangle and an effective grid (n_rows, n_cols) with
\* 1 <= n_rows <= row extent and 1 <= n_cols <= column extent, getEdgesForGrid
\* returns, rows outer and columns inner, exactly the sub-rectangles
\* [row_start + i*h, row_start + (i+1)*h, col_start + j*w, col_start + (j+1)*w]
\* for i < floor(rowExtent/h), j < floor(colExtent/w), h = floor(rowExtent/n_rows),
\* w = floor(colExtent/n_cols); they have the size h x w, lie inside the
\* rectangle, are pairwise disjoint, and the extent mod cell size pixels at the
\* high end of each axis are in none of them.
C1_GridCells ==
    (AppliedGetEdgesForGrid /\ EffectiveGridFits) =>
        LET e == call.edges
            h == RowExtent(e) \div call.grid_real[1]
            w == ColExtent(e) \div call.grid_real[2]
            nr == RowExtent(e) \div h
            nc == ColExtent(e) \div w
            cells == ret.value
        IN  /\ ret.status = "ok"
            /\ Len(cells) = nr * nc
            /\ \A i \in 0..(nr - 1), j \in 0..(nc - 1) :
                 cells[i * nc + j + 1] =
                     <<e[1] + i * h, e[1] + (i + 1) * h,
                       e[3] + j * w, e[3] + (j + 1) * w>>
            /\ \A k \in 1..Len(cells) :
                 /\ RowExtent(cells[k]) = h /\ ColExtent(cells[k]) = w
                 /\ e[1] <= cells[k][1] /\ cells[k][2] <= e[2]
                 /\ e[3] <= cells[k][3] /\ cells[k][4] <= e[4]
            /\ \A k, l \in 1..Len(cells) :
                 k # l => PixelsOf(cells[k]) \cap PixelsOf(cells[l]) = {}
            /\ \A px \in PixelsOf(e) :
                 (\/ px[1] >= e[2] - (RowExtent(e) % h)
                  \/ px[2] >= e[4] - (ColExtent(e) % w))
                 => \A k \in 1..Len(cells) : ~InRectangle(px[1], px[2], cells[k])

\* C1 witness: a grid whose cells leave a remainder on both axes (5 x 5 pixels
\* in a 2 x 2 grid: cells of 2 x 2, one row and one column left over)
C1_Witness ==
    /\ AppliedGetEdgesForGrid /\ EffectiveGridFits
    /\ ret.status = "ok"
    /\ Len(ret.value) > 1
    /\ RowExtent(call.edges) % RowExtent(ret.value[1]) # 0
    /\ ColExtent(call.edges) % ColExtent(ret.value[1]) # 0

\* the number of returned sub-rectangles a pixel lies in
Coverage(px) ==
    Cardinality({k \in 1..Len(ret.value) :
                    InRectangle(px[1], px[2], ret.value[k])})

\* C2 as stated: whenever getEdgesForGrid succeeds, every pixel of the input
\* rectangle lies in exactly one returned sub-rectangle.
C2_ExactTiling ==
    (AppliedGetEdgesForGrid /\ ret.status = "ok") =>
        \A px \in PixelsOf(call.edges) : Coverage(px) = 1

\* C2 amended: whenever getEdgesForGrid succeeds, the returned sub-rectangles
\* lie inside the input rectangle and no pixel lies in two of them; a pixel of
\* the input rectangle lies in exactly one of them unless it is among the
\* (extent mod cell size) rows or columns at the high end, which lie in none.
\* The sub-rectangles tile the input rectangle exactly when both extents are
\* multiples of the cell size.
C2_TilingUpToRemainder ==
    (AppliedGetEdgesForGrid /\ ret.status = "ok") =>
        LET e == call.edges
            h == RowExtent(e) \div call.grid_real[1]
            w == ColExtent(e) \div call.grid_real[2]
            left_over(px) == \/ px[1] >= e[2] - (RowExtent(e) % h)
                             \/ px[2] >= e[4] - (ColExtent(e) % w)
        IN  /\ \A k \in 1..Len(ret.value) : PixelsOf(ret.value[k]) \subseteq PixelsOf(e)
            /\ \A px \in PixelsOf(e) :
                 Coverage(px) = IF left_over(px) THEN 0 ELSE 1
            /\ (RowExtent(e) % h = 0 /\ ColExtent(e) % w = 0)
                 => \A px \in PixelsOf(e) : Coverage(px) = 1

\* C2 witness: a successful partition that leaves pixels of the rectangle out
C2_Witness ==
    /\ AppliedGetEdgesForGrid /\ ret.status = "ok"
    /\ \E px \in PixelsOf(call.edges) : Coverage(px) = 0
    /\ \E px \in PixelsOf(call.edges) : Coverage(px) = 1

----------------------------------------------------------------------------
(* Statistics of a set of pixels, stated by counting (no list, no sort).   *)

\* the value of pixel px in raw band i (0-based)
ValueAt(px, i) == image[<<px[1], px[2], i>>]

RECURSIVE SetSum(_, _)
SetSum(S, i) ==
    IF S = {} THEN 0
    ELSE LET px == CHOOSE p \in S : TRUE
         IN  ValueAt(px, i) + SetSum(S \ {px}, i)

\* the k-th smallest value (k = 1 is the minimum) of the pixels of S in band i
KthSmallest(S, i, k) ==
    CHOOSE v \in {ValueAt(px, i) : px \in S} :
        /\ Cardinality({px \in S : ValueAt(px, i) < v}) < k
        /\ k <= Cardinality({px \in S : ValueAt(px, i) <= v})

MeanOf(S, i) == IF S = {} THEN NaN ELSE Rat(SetSum(S, i), Cardinality(S))

MaxOf(S, i) ==
    RatOfInt(CHOOSE v \in {ValueAt(px, i) : px \in S} :
                 \A px \in S : ValueAt(px, i) <= v)

MedianOf(S, i) ==
    LET n == Cardinality(S)
    IN  IF n = 0 THEN NaN
        ELSE IF n % 2 = 1 THEN RatOfInt(KthSmallest(S, i, (n + 1) \div 2))
        ELSE Rat(KthSmallest(S, i, n \div 2) + KthSmallest(S, i, (n \div 2) + 1), 2)

\* the mean of the m largest values, for a set of at least m pixels
TopMeanOf(S, i, m) ==
    LET n == Cardinality(S)
    IN  Rat(SeqSum([k \in 1..m |-> KthSmallest(S, i, n - m + k)]), m)

\* the raw band (0-based) behind the k-th column of a returned spectrum: the
\* k-th band whose flag is 1
UsableCount == Cardinality({i \in 1..Len(bbl_original) : bbl_original[i] = "1"})

UsableBand(k) ==
    (CHOOSE i \in 1..Len(bbl_original) :
        /\ bbl_original[i] = "1"
        /\ Cardinality({j \in 1..i : bbl_original[j] = "1"}) = k) - 1

\* how often v occurs in the list s
Occurrences(s, v) == Cardinality({k \in 1..Len(s) : s[k] = v})

\* the list roi of every raw band holds the values of exactly the pixels S
RoiHoldsExactly(e, S) ==
    \A i \in 0..(Len(wavelengths_original) - 1) :
        \A v \in 0..(MaxPix - 1) :
            Occurrences(Roi(e, i), v) =
                Cardinality({px \in S : ValueAt(px, i) = v})

----------------------------------------------------------------------------
(* Properties of getMeanSpectrumFromRectangle (SpecRect).                  *)

CalledAggregate == call.op = "getMeanSpectrumFromRectangle"

\* the pixels of rectangle e whose mask value, if there is a mask, is not 1
IncludedPixels(e) == {px \in PixelsOf(e) : mask = None \/ mask[px] # 1}

\* the pixels of rectangle e that the mask marks good (1), all without a mask
GoodPixels(e) == {px \in PixelsOf(e) : mask = None \/ mask[px] = 1}

\* the returned spectrum is one row with one column per usable band, and
\* column k holds Stat of that band
SpectrumIs(Stat(_)) ==
    /\ ret.status = "ok"
    /\ Len(ret.value.data) = 1
    /\ Len(ret.value.data[1]) = UsableCount
    /\ \A k \in 1..UsableCount : ret.value.data[1][k] = Stat(UsableBand(k))

C8_GoodPixelsAggregated ==
    (CalledAggregate /\ mask # None) =>
        RoiHoldsExactly(call.edges, GoodPixels(call.edges))

----------------------------------------------------------------------------
(* Properties of getMeanSpectraFromSquareGrid (SpecSquare).                *)

CalledSquareGrid == call.op = "getMeanSpectraFromSquareGrid"

\* the effective grid of rectangle e: the configured count of an axis, the
\* pixel extent of the axis when the grid is absent or the count is 0
EffectiveGrid(e) ==
    <<IF grid = None \/ grid[1] = 0 THEN RowExtent(e) ELSE grid[1],
      IF grid = None \/ grid[2] = 0 THEN ColExtent(e) ELSE grid[2]>>

CellHeight(e) == RowExtent(e) \div EffectiveGrid(e)[1]
CellWidth(e) == ColExtent(e) \div EffectiveGrid(e)[2]

\* the sub-rectangles of e, row-major
CellsOf(e) == getEdgesForGrid(e, EffectiveGrid(e)).value

\* the value of row r of a returned table in the column named label
Cell(df, r, label) == df.data[r][ColumnIndex(df, label)]

\* C3 as stated: for a rectangle and grid with cell height and width >= 1,
\* getMeanSpectraFromSquareGrid returns one row per sub-rectangle of
\* getEdgesForGrid, row-major; row k holds the aggregate (here the median) of
\* sub-rectangle k and the label (i, j) of the sub-rectangle that starts at
\* (row_start + i*h, col_start + j*w); there are as many labels as
\* sub-rectangles.
C3_OneRowPerSubRectangle ==
    (CalledSquareGrid /\ call.mode = "median"
       /\ CellHeight(call.edges) >= 1 /\ CellWidth(call.edges) >= 1)
    => LET e == call.edges
           cells == CellsOf(e)
       IN  /\ ret.status = "ok"
           /\ Len(getGridElements(EffectiveGrid(e))) = Len(cells)
           /\ Len(ret.value.data) = Len(cells)
           /\ \A k \in 1..Len(cells) :
                /\ \A b \in 1..UsableCount :
                     ret.value.data[k][b] =
                         MedianOf(IncludedPixels(cells[k]), UsableBand(b))
                /\ cells[k][1] = e[1] + Cell(ret.value, k, "GridElement_Row")
                                          * CellHeight(e)
                /\ cells[k][3] = e[3] + Cell(ret.value, k, "GridElement_Column")
                                          * CellWidth(e)

----------------------------------------------------------------------------
(* Properties of getMultipleSpectra (Spec).                                *)

\* a getMultipleSpectra call has returned (normally or with an error)
ReturnedMultipleSpectra == call.op = "getMultipleSpectra" /\ pc = "idle"

RECURSIVE ExpectedRows(_)
\* what the rows of the table of the zones zs are made from, in order: the
\* zone, the sub-rectangle and its label
ExpectedRows(zs) ==
    IF zs = <<>> THEN <<>>
    ELSE LET e == positions[Head(zs)]
             cells == CellsOf(e)
         IN  [k \in 1..Len(cells) |->
                 [zone |-> Head(zs), edges |-> cells[k],
                  label |-> <<(cells[k][1] - e[1]) \div CellHeight(e),
                              (cells[k][3] - e[3]) \div CellWidth(e)>>]]
             \o ExpectedRows(Tail(zs))

\* the mean of the (at most) 10 largest values of the pixels S in band i
Max10Of(S, i) ==
    IF S = {} THEN NaN
    ELSE IF Cardinality(S) >= TopN THEN TopMeanOf(S, i, TopN)
    ELSE MeanOf(S, i)

\* soil / reference * 0.95
Reflectance(soil, reference) == RatMul(RatDiv(soil, reference), Rat(19, 20))

\* C4 as stated: for every zone list (the empty one included), resolvable zone
\* rectangles and a grid with cell size >= 1, getMultipleSpectra returns a
\* table with as many rows as the sum over the zones of effective grid rows
\* times effective grid columns, and number of usable bands + 3 columns.
C4_TableShape ==
    (/\ ReturnedMultipleSpectra
     /\ \A k \in 1..Len(zone_list) :
          /\ zone_list[k] \in DOMAIN positions
          /\ CellHeight(positions[zone_list[k]]) >= 1
          /\ CellWidth(positions[zone_list[k]]) >= 1)
    => /\ ret.status = "ok"
       /\ Len(ret.value.data) =
            SeqSum([k \in 1..Len(zone_list) |->
                       EffectiveGrid(positions[zone_list[k]])[1]
                         * EffectiveGrid(positions[zone_list[k]])[2]])
       /\ Len(ret.value.columns) = UsableCount + 3

\* C5: in a getMultipleSpectra call the first aggregation is the one of the
\* whole rectangle of prefix "spec" in mode "max10", every later aggregation is
\* in mode "median" (so the reference is computed once, before any zone), and
\* every row of the returned table holds, per usable band, the median of its
\* sub-rectangle divided by the max10 value of the reference rectangle, times
\* 0.95.
C5_ReferenceAndCalibration ==
    (call.op = "getMultipleSpectra" /\ trace # <<>>) =>
        /\ trace[1] = <<positions["spec"], "max10">>
        /\ \A k \in 2..Len(trace) : trace[k][2] = "median"
        /\ (pc = "idle" /\ ret.status = "ok") =>
             /\ Len(ret.value.data) = Len(trace) - 1
             /\ \A r \in 1..Len(ret.value.data) : \A b \in 1..UsableCount :
                  ret.value.data[r][b] =
                      Reflectance(
                          MedianOf(IncludedPixels(trace[r + 1][1]), UsableBand(b)),
                          Max10Of(IncludedPixels(positions["spec"]), UsableBand(b)))

\* C5 witness: a returned table of several rows, calibrated against a reference
\* of more than 10 pixels whose max10 value is neither 0 nor its maximum, with
\* a row that the calibration has changed
C5_Witness ==
    /\ ReturnedMultipleSpectra /\ ret.status = "ok"
    /\ Len(ret.value.data) > 1
    /\ Cardinality(IncludedPixels(positions["spec"])) > TopN
    /\ \E b \in 1..UsableCount :
         LET reference == Max10Of(IncludedPixels(positions["spec"]), UsableBand(b))
         IN  /\ reference[1] > 0 /\ reference[2] > 0
             /\ reference # MaxOf(IncludedPixels(positions["spec"]), UsableBand(b))
             /\ \E r \in 1..Len(ret.value.data) :
                  /\ ret.value.data[r][b][1] > 0
                  /\ ret.value.data[r][b] #
                       MedianOf(IncludedPixels(trace[r + 1][1]), UsableBand(b))

\* C6: the table returned by getMultipleSpectra lists the zones in the order
\* of zone_list, the rows of a zone together and in the row-major order of the
\* zone's sub-rectangles: row r carries the zone name and the grid label of the
\* r-th sub-rectangle of that enumeration, and was aggregated over it.
C6_ZoneOrder ==
    (ReturnedMultipleSpectra /\ ret.status = "ok") =>
        LET expected == ExpectedRows(zone_list)
        IN  /\ Len(ret.value.data) = Len(expected)
            /\ \A r \in 1..Len(expected) :
                 /\ Cell(ret.value, r, "zone") = expected[r].zone
                 /\ Cell(ret.value, r, "GridElement_Row") = expected[r].label[1]
                 /\ Cell(ret.value, r, "GridElement_Column") = expected[r].label[2]
                 /\ trace[r + 1] = <<expected[r].edges, "median">>

\* C6 witness: a returned table of two zones, the zone listed second in the
\* positions table first, with several rows for a zone
C6_Witness ==
    /\ ReturnedMultipleSpectra /\ ret.status = "ok"
    /\ zone_list = <<"zone2", "zone1">>
    /\ Len(ret.value.data) > 2
    /\ Cell(ret.value, 1, "zone") = "zone2"
    /\ Cell(ret.value, Len(ret.value.data), "zone") = "zone1"
    /\ Cell(ret.value, 1, "GridElement_Column")
         # Cell(ret.value, Len(ret.value.data), "GridElement_Column")

----------------------------------------------------------------------------
(* Properties of the functions on band lists (SpecBands).                  *)

\* the indices (1-based) of the flags that read 1
KeptIndices(bbl) == {i \in 1..Len(bbl) : bbl[i] = "1"}

\* the k-th of them, in ascending order
KthKept(bbl, k) ==
    CHOOSE i \in KeptIndices(bbl) :
        Cardinality({j \in KeptIndices(bbl) : j <= i}) = k

\* a list without its index 0
WithoutFirst(s) == [i \in 1..(Len(s) - 1) |-> s[i + 1]]

\* (soil / reference) * factor of finite values, as one fraction; a zero
\* reference gives an infinity, or NaN for 0/0
BandQuotient(soil, reference, factor) ==
    Rat(soil[1] * reference[2] * factor[1], soil[2] * reference[1] * factor[2])

CalledCalibrate == call.op = "getCalibratedSpectrum"

\* C11 as stated: for a soil and a reference spectrum of the same length,
\* getCalibratedSpectrum raises no error and returns a spectrum of that length
\* whose band k is (soil[k] / reference[k]) * factor, whatever the other bands
\* hold; a zero reference gives the non-finite quotient in that band only.
C11_PerBandQuotient ==
    (CalledCalibrate /\ Len(call.soil) = Len(call.spectralon)) =>
        /\ ret.status = "ok"
        /\ ret.value.shape = <<Len(call.soil)>>
        /\ \A k \in 1..Len(call.soil) :
             ret.value.data[k] =
                 BandQuotient(call.soil[k], call.spectralon[k],
                              call.spectralon_factor)

\* C12: removeBadBands keeps the band at index i iff its flag reads 1: both
\* returned lists have as many entries as there are such flags, and their k-th
\* entries are the wavelength and the value of the k-th kept index, so the
\* input order is kept and equal wavelengths are not merged.
C12_KeptBands ==
    (call.op = "removeBadBands") =>
        LET kept == KeptIndices(call.bbl)
        IN  /\ ret.status = "ok"
            /\ Len(ret.value[1]) = Cardinality(kept)
            /\ Len(ret.value[2]) = Cardinality(kept)
            /\ \A k \in 1..Cardinality(kept) :
                 /\ ret.value[1][k] = call.wavelengths[KthKept(call.bbl, k)]
                 /\ ret.value[2][k] = call.spectrum[KthKept(call.bbl, k)]

\* C12 witness: a band with flag "2" is dropped, and two kept bands with the
\* same wavelength both stay
C12_Witness ==
    /\ call.op = "removeBadBands"
    /\ \E i \in 1..Len(call.bbl) : call.bbl[i] = "2"
    /\ Len(ret.value[1]) = 2
    /\ Len(ret.value[1]) < Len(call.bbl)
    /\ ret.value[1][1] = ret.value[1][2]
    /\ ret.value[2][1] # ret.value[2][2]

\* C13: for wavelengths and flags of different lengths validateWavelengths
\* raises ValueError and returns nothing, also when one of the lengths is 139,
\* and so does the construction of a ProcessEnviFile.
C13_LengthMismatch ==
    (/\ call.op \in {"validateWavelengths", "__init__"}
     /\ Len(call.wavelengths) # Len(call.bbl))
    => ret = Raise("ValueError")

\* C13 witness: a construction with 139 wavelengths and 138 flags has failed
C13_Witness ==
    /\ call.op = "__init__"
    /\ Len(call.wavelengths) = SentinelLength
    /\ Len(call.bbl) = SentinelLength - 1
    /\ ret.status = "ValueError"

\* C14: for lists of equal length validateWavelengths returns both without
\* their index 0 iff the length is 139 and unchanged otherwise; validating the
\* result again changes nothing, and the usable wavelengths of an object built
\* from 139 bands are those of the lists without index 0.
C14_SentinelDrop ==
    /\ (call.op = "validateWavelengths"
          /\ Len(call.wavelengths) = Len(call.bbl))
       => /\ ret.status = "ok"
          /\ ret.value =
               IF Len(call.wavelengths) = 139
               THEN <<WithoutFirst(call.wavelengths), WithoutFirst(call.bbl)>>
               ELSE <<call.wavelengths, call.bbl>>
          /\ validateWavelengths(ret.value[1], ret.value[2]) = Ok(ret.value)
    /\ (call.op = "__init__" /\ Len(call.wavelengths) = 139
          /\ Len(call.bbl) = 139)
       => LET wl == WithoutFirst(call.wavelengths)
              bbl == WithoutFirst(call.bbl)
          IN  /\ ret.status = "ok"
              /\ Len(ret.value.wavelengths) = Cardinality(KeptIndices(bbl))
              /\ \A k \in 1..Cardinality(KeptIndices(bbl)) :
                   ret.value.wavelengths[k] = wl[KthKept(bbl, k)]

\* C14 witness: 139 bands whose index 0 is flagged good have been validated
\* to 138
C14_Witness ==
    /\ call.op = "validateWavelengths"
    /\ Len(call.wavelengths) = 139 /\ Len(call.bbl) = 139
    /\ call.bbl[1] = "1"
    /\ ret.status = "ok"
    /\ Len(ret.value[1]) = 138
    /\ ret.value[1][1] = call.wavelengths[2]

----------------------------------------------------------------------------
(* Properties of the band lists of an object (Spec).                       *)

\* the statistic of mode over the pixels S in band i
StatisticOf(mode, S, i) ==
    CASE mode = "median" -> MedianOf(S, i)
      [] mode = "mean" -> MeanOf(S, i)
      [] mode = "max" -> MaxOf(S, i)
      [] mode = "max10" -> Max10Of(S, i)

\* C15: after construction and after any sequence of operations
\* wavelengths_original and bbl_original have the same length and
\* self.wavelengths holds the wavelengths of the bands flagged 1, in order;
\* every spectrum getMeanSpectrumFromRectangle returns has self.wavelengths as
\* its column labels, and its column k holds the aggregate of the raw band at
\* the index of the k-th flag equal to 1.
C15_BandsInSync ==
    /\ Len(wavelengths_original) = Len(bbl_original)
    /\ Len(wavelengths) = UsableCount
    /\ \A k \in 1..UsableCount :
         wavelengths[k] = wavelengths_original[UsableBand(k) + 1]
    /\ (CalledAggregate /\ ret.status = "ok") =>
         /\ ret.value.columns = wavelengths
         /\ SpectrumIs(LAMBDA i :
                StatisticOf(call.mode, IncludedPixels(call.edges), i))

\* C15 witness: after an earlier operation, a spectrum of an object whose raw
\* band 0 is flagged bad; its first column is the mean of raw band 1 and
\* differs from the mean of raw band 0
C15_Witness ==
    /\ CalledAggregate /\ call.mode = "mean" /\ ret.status = "ok"
    /\ grid_elements # None
    /\ bbl_original[1] = "0"
    /\ UsableBand(1) = 1
    /\ ret.value.data[1][1] = MeanOf(IncludedPixels(call.edges), 1)
    /\ ret.value.data[1][1] # MeanOf(IncludedPixels(call.edges), 0)

----------------------------------------------------------------------------
(* Properties of getRealGridSize and getGridElements (SpecGrid).           *)

\* C16: getRealGridSize resolves each axis on its own: without a grid, or
\* with (0,0), both counts are the pixel extents of the rectangle; a
\* configured 0 on one axis gives that axis its pixel extent; a configured
\* non-zero count is returned unchanged, whatever the rectangle.
C16_AxesResolved ==
    (call.op = "getRealGridSize") =>
        LET e == call.edges
        IN  /\ ret.status = "ok"
            /\ (grid = None \/ grid = <<0, 0>>)
                 => ret.value = <<RowExtent(e), ColExtent(e)>>
            /\ (grid # None) =>
                 /\ ret.value[1] = IF grid[1] = 0 THEN RowExtent(e) ELSE grid[1]
                 /\ ret.value[2] = IF grid[2] = 0 THEN ColExtent(e) ELSE grid[2]

\* C16 witness: grid (0,2) on a rectangle of 3 rows and 1 column gives (3,2):
\* the row axis resolved alone, the column count kept although it exceeds the
\* extent
C16_Witness ==
    /\ call.op = "getRealGridSize"
    /\ grid = <<0, 2>>
    /\ RowExtent(call.edges) = 3 /\ ColExtent(call.edges) = 1
    /\ ret.value = <<3, 2>>

\* C20: getGridElements returns the single label (0,0) for None and for
\* (0,0), and otherwise the pairs (i, j) with i < rows and j < cols, i outer
\* and j inner, rows x cols of them.
C20_GridLabels ==
    (call.op = "getGridElements") =>
        LET g == call.grid_real
        IN  IF g = None \/ g = <<0, 0>>
            THEN ret = Ok(<< <<0, 0>> >>)
            ELSE /\ ret.status = "ok"
                 /\ Len(ret.value) = g[1] * g[2]
                 /\ \A i \in 0..(g[1] - 1), j \in 0..(g[2] - 1) :
                      ret.value[i * g[2] + j + 1] = <<i, j>>

\* C20 witness: the labels of a 2 x 3 grid, the fourth being (1, 0)
C20_Witness ==
    /\ call.op = "getGridElements"
    /\ call.grid_real = <<2, 3>>
    /\ Len(ret.value) = 6
    /\ ret.value[4] = <<1, 0>>

----------------------------------------------------------------------------
(* Properties of an absent grid (SpecSquare).                              *)

\* the pixels of rectangle e, rows outer and columns inner
PixelAt(e, k) ==
    <<e[1] + ((k - 1) \div ColExtent(e)), e[3] + ((k - 1) % ColExtent(e))>>

----------------------------------------------------------------------------
(* Properties of the number of cells and of degenerate grids.              *)

\* the number of different row (column) starts among the cells
CellRows(cells) == Cardinality({cells[k][1] : k \in 1..Len(cells)})
CellCols(cells) == Cardinality({cells[k][3] : k \in 1..Len(cells)})

\* C18 as stated (SpecFn): for a rectangle and an effective grid with cell
\* size >= 1, getEdgesForGrid produces along each axis at most as many cells
\* as the effective count of that axis.
C18_AtMostEffectiveCount ==
    (AppliedGetEdgesForGrid /\ EffectiveGridFits) =>
        /\ ret.status = "ok"
        /\ CellRows(ret.value) <= call.grid_real[1]
        /\ CellCols(ret.value) <= call.grid_real[2]

\* C18 amended (SpecFn): along an axis of extent E with effective count n,
\* 1 <= n <= E, getEdgesForGrid produces floor(E / floor(E / n)) cells: never
\* fewer than n, and more than n exactly when E >= (n + 1) * floor(E / n).
C18_AtLeastEffectiveCount ==
    (AppliedGetEdgesForGrid /\ EffectiveGridFits) =>
        LET E == RowExtent(call.edges)
            F == ColExtent(call.edges)
            n == call.grid_real[1]
            m == call.grid_real[2]
        IN  /\ ret.status = "ok"
            /\ CellRows(ret.value) = E \div (E \div n)
            /\ CellCols(ret.value) = F \div (F \div m)
            /\ CellRows(ret.value) >= n /\ CellCols(ret.value) >= m
            /\ (CellRows(ret.value) > n) <=> (E >= (n + 1) * (E \div n))
            /\ (CellCols(ret.value) > m) <=> (F >= (m + 1) * (F \div m))

\* C18 witness: 5 pixel rows in 3 grid rows give 5 rows of cells, while 4 pixel
\* columns in 2 grid columns give 2 columns of cells
C18_Witness ==
    /\ AppliedGetEdgesForGrid /\ ret.status = "ok"
    /\ RowExtent(call.edges) = 5 /\ call.grid_real[1] = 3
    /\ ColExtent(call.edges) = 4 /\ call.grid_real[2] = 2
    /\ CellRows(ret.value) = 5
    /\ CellCols(ret.value) = 2

\* the grid g asks of rectangle e a count of 0, or more cells than pixels, on
\* some axis
Degenerate(e, g) ==
    \/ g[1] = 0 \/ g[1] > RowExtent(e)
    \/ g[2] = 0 \/ g[2] > ColExtent(e)

\* C19 (Spec): getEdgesForGrid raises an error and returns no list when the
\* effective count of an axis is 0 or exceeds the pixel extent, and otherwise
\* returns no sub-rectangle without pixels; getMeanSpectraFromSquareGrid
\* raises the same error for such a rectangle, and getMultipleSpectra returns
\* no table when a zone is such a rectangle (that error, when it is the first
\* zone).
C19_DegenerateGrid ==
    /\ AppliedGetEdgesForGrid =>
         IF Degenerate(call.edges, call.grid_real)
         THEN ret = Raise("ZeroDivisionError")
         ELSE /\ ret.status = "ok"
              /\ \A k \in 1..Len(ret.value) :
                   RowExtent(ret.value[k]) >= 1 /\ ColExtent(ret.value[k]) >= 1
    /\ (CalledSquareGrid /\ Degenerate(call.edges, EffectiveGrid(call.edges)))
         => ret = Raise("ZeroDivisionError")
    /\ (ReturnedMultipleSpectra
          /\ \E k \in 1..Len(zone_list) :
               Degenerate(positions[zone_list[k]],
                          EffectiveGrid(positions[zone_list[k]])))
         => /\ ret.status # "ok"
            /\ ret.value = <<>>
            /\ Degenerate(positions[zone_list[1]],
                          EffectiveGrid(positions[zone_list[1]]))
                 => ret = Raise("ZeroDivisionError")

\* C19 witness: getMultipleSpectra has aggregated its first zone and failed on
\* the second, whose rectangle has fewer pixel rows than the grid has rows
C19_Witness ==
    /\ ReturnedMultipleSpectra
    /\ Len(zone_list) = 2
    /\ ~Degenerate(positions[zone_list[1]], EffectiveGrid(positions[zone_list[1]]))
    /\ EffectiveGrid(positions[zone_list[2]])[1] > RowExtent(positions[zone_list[2]])
    /\ Len(trace) > 1
    /\ ret = Raise("ZeroDivisionError")

----------------------------------------------------------------------------
(* Modes other than the four (SpecMode).                                   *)

\* C30: getMeanSpectrumFromRectangle called with a mode other than "median",
\* "mean", "max" and "max10" raises no error, whatever the rectangle and the
\* mask: it returns a table of one row that has no band column.
C30_UnknownModeEmptyRow ==
    (call.op = "getMeanSpectrumFromRectangle" /\ call.mode \notin Modes) =>
        /\ ret.status = "ok"
        /\ ret.value.columns = <<>>
        /\ ret.value.data = << <<>> >>

\* C30 witness: mode "sum" over a rectangle of which the mask removes every
\* pixel, and over one of several unmasked pixels
C30_Witness ==
    /\ call.op = "getMeanSpectrumFromRectangle"
    /\ call.mode = "sum"
    /\ mask # None
    /\ \E px \in PixelsOf(call.edges) : mask[px] = 0
    /\ \E px \in PixelsOf(call.edges) : mask[px] = 1
    /\ ret.status = "ok"
    /\ Len(ret.value.data) = 1
    /\ ret.value.columns = <<>>

----------------------------------------------------------------------------
(* Rectangles the positions table does not have (SpecZones).               *)

\* the positions of the zone list whose zone has no columns in the table
MissingZones == {i \in 1..Len(zone_list) : zone_list[i] \notin DOMAIN positions}

\* the number of zones of the list before the first one without columns
ZonesBeforeMissing ==
    IF MissingZones = {} THEN Len(zone_list)
    ELSE (CHOOSE i \in MissingZones : \A j \in MissingZones : i <= j) - 1

\* C21: when the positions table has no columns for the reference prefix, or
\* for a zone at any position of the zone list, getMultipleSpectra raises the
\* lookup error and returns no table, not even of the zones before the missing
\* one; the zones before it were aggregated once each, the missing zone and
\* the zones after it not at all.
C21_MissingRectangleRaises ==
    (ReturnedMultipleSpectra
     /\ (ReferencePrefix \notin DOMAIN positions \/ MissingZones # {})) =>
        /\ ret = Raise("KeyError")
        /\ IF ReferencePrefix \notin DOMAIN positions
           THEN trace = <<>>
           ELSE /\ trace[1] = <<positions[ReferencePrefix], ReferenceMode>>
                /\ SubSeq(trace, 2, Len(trace)) =
                       [k \in 1..Len(ExpectedRows(SubSeq(zone_list, 1,
                                                         ZonesBeforeMissing))) |->
                           <<ExpectedRows(SubSeq(zone_list, 1,
                                                 ZonesBeforeMissing))[k].edges,
                             ZoneMode>>]

\* C21 witness: the second of three zones has no columns; the first zone was
\* aggregated, and the call has raised
C21_Witness ==
    /\ ReturnedMultipleSpectra
    /\ Len(zone_list) = 3
    /\ ReferencePrefix \in DOMAIN positions
    /\ MissingZones = {2}
    /\ Len(trace) > 1
    /\ ret = Raise("KeyError")

----------------------------------------------------------------------------
(* The fields of the object over sequences of calls (Spec).                *)

\* the labels (i, j) of a grid of g[1] rows and g[2] columns, row-major
LabelsOf(g) ==
    [k \in 1..(g[1] * g[2]) |-> <<(k - 1) \div g[2], (k - 1) % g[2]>>]

\* the step is a call of getMeanSpectraFromSquareGrid on a rectangle: a direct
\* call, or the one getMultipleSpectra makes for the next zone of its list
SquareGridStep ==
    \/ pc = "idle" /\ call'.op = "getMeanSpectraFromSquareGrid"
    \/ /\ pc = "getMultipleSpectra"
       /\ zone_i <= Len(zone_list)
       /\ zone_list[zone_i] \in DOMAIN positions

\* the rectangle of that call
SquareGridStepRectangle ==
    IF pc = "idle" THEN call'.edges ELSE positions[zone_list[zone_i]]

----------------------------------------------------------------------------
(* Calibration of a table (SpecCal).                                       *)

CalledCalibrateTable == call.op = "getCalibratedSpectra"

\* the value of the reference in the column named label
ReferenceAt(label) == call.spectralon.data[1][ColumnIndex(call.spectralon, label)]

IsWavelength(label) == \E k \in 1..Len(wavelengths) : wavelengths[k] = label

----------------------------------------------------------------------------
(* Repeated calls (SpecRepeat).                                            *)

\* C22: in every sequence of calls of getMeanSpectrumFromRectangle,
\* getMeanSpectraFromSquareGrid, getCalibratedSpectra and getMultipleSpectra
\* on one object, two calls with identical inputs return identical outputs,
\* whatever was called before each of them and between them.
C22_RepeatedCallSameReturn ==
    \A i \in 1..Len(trace) : \A j \in 1..Len(trace) :
        trace[i].call = trace[j].call => trace[i].ret = trace[j].ret

\* C22 witness: getMeanSpectraFromSquareGrid was called on a rectangle, then
\* on a rectangle with other grid labels, then on the first rectangle again;
\* the first and the third call returned the same table
C22_Witness ==
    /\ Len(trace) = 3
    /\ trace[1].call.op = "getMeanSpectraFromSquareGrid"
    /\ trace[2].call.op = "getMeanSpectraFromSquareGrid"
    /\ trace[3].call = trace[1].call
    /\ LabelsOf(EffectiveGrid(trace[1].call.edges))
           # LabelsOf(EffectiveGrid(trace[2].call.edges))
    /\ trace[1].ret.status = "ok"
    /\ Len(trace[1].ret.value.data) > 1
    /\ trace[3].ret = trace[1].ret

----------------------------------------------------------------------------
(* The 24-hour time (SpecTime).                                            *)

\* the hour of the 24-hour clock of hour h of the 12-hour clock
Hour24(h, ampm) ==
    IF ampm[1] = "P" THEN (IF h < 12 THEN h + 12 ELSE 12)
    ELSE (IF h < 12 THEN h ELSE 0)

\* C27 as stated: for a time "h:mm:ss" with h in 1..12 and a marker that begins
\* with "A" or "P", formatTime returns the time of the 24-hour clock with the
\* minutes and seconds unchanged: hour h + 12 for PM and h < 12, hour 12 for
\* 12 PM, hour h for AM and h < 12, hour 0 for 12 AM; the hour of the result
\* is within 0..23.
C27_TwentyFourHour ==
    call.op = "formatTime" =>
        \A h \in ClockHours, m \in ClockMinutes, s \in ClockSeconds :
            call.time = TimeString(h, m, s) =>
                /\ ret = Ok(TimeString(Hour24(h, call.ampm), m, s))
                /\ PyIntOfStr(PySplit(ret.value, ":")[1]) \in 0..23

----------------------------------------------------------------------------
(* ProcessFullDataset (SpecData).                                          *)

CalledProcess == call.op = "process"

\* the masks table is given and lists the measurement at another index than
\* the positions table
MasksMismatch ==
    /\ dataset.masks # None
    /\ \E i \in 1..Len(dataset.masks.measurement) :
         /\ dataset.masks.measurement[i] = dataset.meas_name
         /\ \A j \in 1..(i - 1) : dataset.masks.measurement[j] # dataset.meas_name
         /\ i - 1 # dataset.index_of_meas

\* the masks table is absent, or lists the measurement at the index of the
\* positions table
MasksAgree ==
    \/ dataset.masks = None
    \/ /\ Len(dataset.masks.measurement) > dataset.index_of_meas
       /\ dataset.masks.measurement[dataset.index_of_meas + 1] = dataset.meas_name
       /\ \A j \in 1..dataset.index_of_meas :
              dataset.masks.measurement[j] # dataset.meas_name

\* band 5 of the image sums to zero (pixel values are not negative)
BandFiveEmpty == \A px \in Pixels : image[<<px[1], px[2], EmptyCheckBand>>] = 0

\* C28: process raises IOError when masks are supplied and the index of the
\* measurement in the masks table differs from its index in the positions
\* table, whether or not the image is empty (the check of the index comes
\* first); it returns None when that check passes and band 5 of the image sums
\* to zero; in both outcomes no spectrum was extracted and no soil-moisture or
\* LWIR data was read.
C28_ChecksBeforeExtraction ==
    CalledProcess =>
        /\ MasksMismatch =>
               ret = Raise("IOError") /\ trace = <<>> /\ pc = "idle"
        /\ (MasksAgree /\ BandFiveEmpty) =>
               ret = Ok(None) /\ trace = <<>> /\ pc = "idle"

\* C28 witness: the masks table has the measurement at another index and band 5
\* of the image is empty; process has raised the IOError
C28_Witness ==
    /\ CalledProcess
    /\ MasksMismatch
    /\ BandFiveEmpty
    /\ ret = Raise("IOError")
    /\ trace = <<>>

\* the time t lies within half the window width before or after the image
WithinWindow(t) ==
    2 * Abs(t - dataset.datetime) <= dataset.time_window_width

\* C25 as stated: getSoilMoistureData uses the measurement of a sensor nearest
\* in time, and getLwirData the export file nearest in time, only if its
\* timestamp lies within time_window_width / 2 minutes before or after the
\* time of the image.
C25_NearestWithinWindow ==
    /\ (call.op = "getSoilMoistureData" /\ ret.status = "ok") =>
           \A r \in 1..Len(ret.value.data) :
               WithinWindow(Cell(ret.value, r, "volSM_vol%")[3])
    /\ (call.op = "getLwirData" /\ ret.status = "ok") =>
           \A r \in 1..Len(ret.value.data) :
               Cell(ret.value, r, "mean") # NaN =>
                   WithinWindow(Cell(ret.value, r, "mean")[2])

\* the zone of the sensor with the given number
ZoneOfSensor(number) ==
    LET S == AllSoilMoistureSensors
    IN  zone_dict[S.zone[CHOOSE i \in 1..Len(S.number) : S.number[i] = number]]

\* C29 as stated: in the table process returns, the soil-moisture values and
\* the LWIR values of every row were measured in the zone the row's "zone"
\* label names, for every zone list, grid and set of sensors and files within
\* the window.
C29_RowValuesOfRowZone ==
    (CalledProcess /\ pc = "idle" /\ ret.status = "ok" /\ ret.value # None) =>
        \A r \in 1..Len(ret.value.data) :
            /\ Cell(ret.value, r, "volSM_vol%") # NaN =>
                   ZoneOfSensor(Cell(ret.value, r, "volSM_vol%")[2])
                       = Cell(ret.value, r, "zone")
            /\ Cell(ret.value, r, "T_C") # NaN =>
                   ZoneOfSensor(Cell(ret.value, r, "T_C")[2])
                       = Cell(ret.value, r, "zone")
            /\ \A stat \in {"mean", "med", "std"} :
                   Cell(ret.value, r, stat) # NaN =>
                       Cell(ret.value, r, stat)[3] = Cell(ret.value, r, "zone")

----------------------------------------------------------------------------
(* The output file (SpecDriver).                                           *)

\* C26 as stated: while overwrite_csv_file is false and the output file
\* exists, processHydReSGeoDataset processes no image and does not write the
\* output file.
C26_ExistingFileKept ==
    [][(~driver.overwrite_csv_file /\ driver.data_output # None) =>
           /\ driver'.data_output = driver.data_output
           /\ trace' = trace]_vars

====
